---------------------------- MODULE Spec2Model ----------------------------
(***************************************************************************)
(* Model of the TFG-Matcher search core: src/src/search/search_engine.py   *)
(* (SearchEngine) and the request handlers of src/app.py that call it.     *)
(*                                                                         *)
(* Text whose structure the code inspects (dates, impact factors, queries, *)
(* production types) is a sequence of one-character strings; text the code *)
(* only compares for equality (professor names, categories) is a string.   *)
(* A character outside ASCII is written by name ("I_ACUTE", "COMB_ACUTE"). *)
(* Decimal numbers are fixed-point integers: distances and scores in       *)
(* units of 1/10000, impact factors in units of 1/100.                     *)
(***************************************************************************)
EXTENDS Integers, Sequences, FiniteSets, TLC

VARIABLES
    corpus,            \* the collection: sequence of [id, document, metadata]
    now,               \* wall clock read by time.time(), in seconds
    stats_cache,       \* SearchEngine._stats_cache (None or a stats object)
    stats_cache_time,  \* SearchEngine._stats_cache_time
    call,              \* observation of the most recent completed operation
    lastScan,          \* observation: the most recent corpus scan of the stats
    app,               \* src/app.py: module state and the request in progress
    auth,              \* AuthSystem's database: the users and student_profiles tables
    threads            \* the get_database_stats calls in progress, one per thread

vars == <<corpus, now, stats_cache, stats_cache_time, call, lastScan, app, auth, threads>>

\* no thread is inside the engine
NoThreads == <<>>

\* the tables as _init_database creates them
EmptyDatabase == [users |-> <<>>, profiles |-> <<>>]

\* Python's None, where the other values of the variable are records
None == [none |-> TRUE]

\* ── Program constants ──────────────────────────────────────────────────
MAX_RESULTS == 100
STATS_CACHE_TTL == 300

\* ── Bounds of the model ────────────────────────────────────────────────
MaxCorpus == 3          \* records in the collection
MaxNow == 600           \* the clock stops advancing past this time

\* ── Generic helpers ────────────────────────────────────────────────────
Min(a, b) == IF a <= b THEN a ELSE b
Max(a, b) == IF a >= b THEN a ELSE b

Range(s) == {s[i] : i \in 1..Len(s)}

\* s[:n] of Python: the first n elements, fewer when s is shorter
Prefix(s, n) == SubSeq(s, 1, Min(n, Len(s)))

\* the subsequence of s at the positions whose element satisfies Test
RECURSIVE SelectIdx(_, _)
SelectIdx(s, keep) ==
    IF s = <<>> THEN <<>>
    ELSE IF Len(s) \in keep
         THEN Append(SelectIdx(SubSeq(s, 1, Len(s) - 1), keep), s[Len(s)])
         ELSE SelectIdx(SubSeq(s, 1, Len(s) - 1), keep)

\* list.sort(key=..., reverse=True) over a sequence of [key, item] pairs:
\* descending by key and stable (elements with equal keys keep their
\* original order, as Python guarantees also with reverse=True).  Element i
\* lands after every element with a larger key and after the earlier
\* elements with an equal key.
SortPos(ps, i) ==
    1 + Cardinality({j \in 1..Len(ps) : ps[j].key > ps[i].key})
      + Cardinality({j \in 1..(i - 1) : ps[j].key = ps[i].key})

SortDesc(ps) ==
    [p \in 1..Len(ps) |-> ps[CHOOSE i \in 1..Len(ps) : SortPos(ps, i) = p].item]

\* ── Characters and numbers in text ─────────────────────────────────────
DigitVal == [c \in {"0","1","2","3","4","5","6","7","8","9"} |->
               CASE c = "0" -> 0 [] c = "1" -> 1 [] c = "2" -> 2 [] c = "3" -> 3
                 [] c = "4" -> 4 [] c = "5" -> 5 [] c = "6" -> 6 [] c = "7" -> 7
                 [] c = "8" -> 8 [] c = "9" -> 9]

IsDigit(c) == c \in DOMAIN DigitVal

AllDigits(s) == \A i \in 1..Len(s) : IsDigit(s[i])

RECURSIVE ToInt(_)
ToInt(s) == IF s = <<>> THEN 0
            ELSE 10 * ToInt(SubSeq(s, 1, Len(s) - 1)) + DigitVal[s[Len(s)]]

\* s.split(sep) for a one-character separator
RECURSIVE Split(_, _)
Split(s, sep) ==
    IF \A i \in 1..Len(s) : s[i] # sep THEN <<s>>
    ELSE LET p == CHOOSE i \in 1..Len(s) :
                     s[i] = sep /\ \A j \in 1..(i - 1) : s[j] # sep
         IN  <<SubSeq(s, 1, p - 1)>> \o Split(SubSeq(s, p + 1, Len(s)), sep)

\* Code points of the characters that occur in the modelled text; Python
\* compares strings by code point.
CharCode(c) ==
    CASE c = " " -> 32 [] c = "-" -> 45 [] c = "." -> 46 [] c = "/" -> 47
      [] IsDigit(c) -> 48 + DigitVal[c]
      [] c = "A" -> 65 [] c = "N" -> 78
      [] c = "a" -> 97 [] c = "b" -> 98 [] c = "c" -> 99 [] c = "n" -> 110

\* s < t for Python strings: lexicographic by code point, a proper prefix first
RECURSIVE StrLess(_, _)
StrLess(s, t) ==
    IF t = <<>> THEN FALSE
    ELSE IF s = <<>> THEN TRUE
    ELSE IF s[1] # t[1] THEN CharCode(s[1]) < CharCode(t[1])
    ELSE StrLess(Tail(s), Tail(t))

\* ── datetime.strptime and _safe_parse_date ─────────────────────────────
\* A datetime is the integer yyyymmdd, which orders as datetime does (every
\* format below leaves the time of day at 00:00:00).
DateKey(y, m, d) == y * 10000 + m * 100 + d

DatetimeMin == DateKey(1, 1, 1)      \* datetime.min = 0001-01-01 00:00:00

ValueError == -1                     \* strptime raised ValueError

IsLeap(y) == (y % 4 = 0 /\ y % 100 # 0) \/ y % 400 = 0

DaysInMonth(y, m) ==
    IF m = 2 THEN (IF IsLeap(y) THEN 29 ELSE 28)
    ELSE IF m \in {4, 6, 9, 11} THEN 30 ELSE 31

\* the regular expressions _strptime builds for the directives
MatchY(p) == Len(p) = 4 /\ AllDigits(p)                  \* \d\d\d\d
MatchM(p) == /\ Len(p) \in {1, 2}                        \* 1[0-2]|0[1-9]|[1-9]
             /\ AllDigits(p)
             /\ ToInt(p) \in 1..12
MatchD(p) == \/ /\ Len(p) \in {1, 2}          \* 3[01]|[12]\d|0[1-9]|[1-9]
                /\ AllDigits(p)
                /\ ToInt(p) \in 1..31
             \/ /\ Len(p) = 2                            \* | [1-9]
                /\ p[1] = " "
                /\ IsDigit(p[2])
                /\ p[2] # "0"

DayVal(p) == IF p[1] = " " THEN DigitVal[p[2]] ELSE ToInt(p)

\* The formats of _safe_parse_date, in the order the code tries them:
\* the directives of each and the literal that separates them.
DateFormats ==
    << [sep |-> "-", fields |-> <<"Y", "m", "d">>],      \* %Y-%m-%d
       [sep |-> "/", fields |-> <<"Y", "m", "d">>],      \* %Y/%m/%d
       [sep |-> "-", fields |-> <<"d", "m", "Y">>],      \* %d-%m-%Y
       [sep |-> "/", fields |-> <<"d", "m", "Y">>],      \* %d/%m/%Y
       [sep |-> "-", fields |-> <<"Y", "m">>],           \* %Y-%m
       [sep |-> "-", fields |-> <<"Y">>] >>              \* %Y

\* datetime.strptime(s, fmt): the whole string must match the directives
\* separated by the literal, and the date must exist (year >= 1, day within
\* the month); a directive that is absent defaults to 1.
Strptime(s, fmt) ==
    LET parts == Split(s, fmt.sep)
        n     == Len(fmt.fields)
        Pos(f) == CHOOSE i \in 1..n : fmt.fields[i] = f
        Has(f) == \E i \in 1..n : fmt.fields[i] = f
        ok    == /\ Len(parts) = n
                 /\ \A i \in 1..n :
                       CASE fmt.fields[i] = "Y" -> MatchY(parts[i])
                         [] fmt.fields[i] = "m" -> MatchM(parts[i])
                         [] fmt.fields[i] = "d" -> MatchD(parts[i])
        y     == ToInt(parts[Pos("Y")])
        m     == IF Has("m") THEN ToInt(parts[Pos("m")]) ELSE 1
        d     == IF Has("d") THEN DayVal(parts[Pos("d")]) ELSE 1
    IN  IF ~ok THEN ValueError
        ELSE IF y < 1 \/ d > DaysInMonth(y, m) THEN ValueError
        ELSE DateKey(y, m, d)

Sentinels == { <<"-">>, <<>>, <<"N", "/", "A">>, <<"n", "/", "a">> }

RECURSIVE TryFormats(_, _)
TryFormats(s, i) ==
    IF i > Len(DateFormats) THEN DatetimeMin
    ELSE IF Strptime(s, DateFormats[i]) # ValueError
         THEN Strptime(s, DateFormats[i])
         ELSE TryFormats(s, i + 1)

\* SearchEngine._safe_parse_date
SafeParseDate(fecha_str) ==
    IF fecha_str = <<>> \/ fecha_str \in Sentinels THEN DatetimeMin
    ELSE TryFormats(fecha_str, 1)

\* ── Corpus records ─────────────────────────────────────────────────────
\* Dates and impact factors as the ingestion stores them: the raw, stripped
\* CSV cell, "" for an empty cell (data_processor_pandas.py, _get).
F_2023_01_01 == <<"2","0","2","3","-","0","1","-","0","1">>
F_2021_06_01 == <<"2","0","2","1","-","0","6","-","0","1">>
F_dash       == <<"-">>
F_01_06_2021 == <<"0","1","/","0","6","/","2","0","2","1">>
F_2021       == <<"2","0","2","1">>
F_0001_01_01 == <<"0","0","0","1","-","0","1","-","0","1">>
F_empty      == <<>>

IF_2_5   == <<"2", ".", "5">>
IF_0_5   == <<"0", ".", "5">>
IF_3     == <<"3">>
IF_abc   == <<"a", "b", "c">>
IF_empty == <<>>

T_articulo == <<"a", "r", "t", "i", "c", "u", "l", "o">>
T_docencia == <<"d", "o", "c", "e", "n", "c", "i", "a">>
T_proyecto == <<"p", "r", "o", "y", "e", "c", "t", "o">>
T_Unknown  == <<"U", "n", "k", "n", "o", "w", "n">>

\* The records the collection may hold; a document is named by its id.  Record 6 lacks the if_sjr and
\* fecha keys (a collection not written by this ingestion); the others carry
\* every key, as _process_dataframe writes them.
RecordPool ==
    { [id |-> 1, document |-> <<"doc", 1>>,
       metadata |-> [profesor |-> "Ana Gomez", tipo_produccion |-> T_articulo,
                     fecha |-> F_2023_01_01, if_sjr |-> IF_2_5,
                     categorias |-> "inteligencia artificial"]],
      [id |-> 2, document |-> <<"doc", 2>>,
       metadata |-> [profesor |-> "Ana Gomez", tipo_produccion |-> T_docencia,
                     fecha |-> F_2021_06_01, if_sjr |-> IF_empty,
                     categorias |-> ""]],
      [id |-> 3, document |-> <<"doc", 3>>,
       metadata |-> [profesor |-> "Ana Gomez", tipo_produccion |-> T_articulo,
                     fecha |-> F_dash, if_sjr |-> IF_abc,
                     categorias |-> "redes"]],
      [id |-> 4, document |-> <<"doc", 4>>,
       metadata |-> [profesor |-> "Ana Gomez", tipo_produccion |-> T_proyecto,
                     fecha |-> F_0001_01_01, if_sjr |-> IF_3,
                     categorias |-> "redes"]],
      [id |-> 5, document |-> <<"doc", 5>>,
       metadata |-> [profesor |-> "Luis Perez", tipo_produccion |-> T_articulo,
                     fecha |-> F_01_06_2021, if_sjr |-> IF_0_5,
                     categorias |-> "inteligencia artificial"]],
      [id |-> 6, document |-> <<"doc", 6>>,
       metadata |-> [profesor |-> "ana gomez", tipo_produccion |-> T_articulo,
                     categorias |-> "redes"]],
      [id |-> 7, document |-> <<"doc", 7>>,
       metadata |-> [profesor |-> "Ana Gomez", tipo_produccion |-> T_articulo,
                     fecha |-> F_2023_01_01, if_sjr |-> IF_0_5,
                     categorias |-> "redes"]] }

\* The collections of at most MaxCorpus records, in the order the store
\* returns them.
Corpora ==
    UNION { {c \in [1..n -> RecordPool] : \A i, j \in 1..n : i # j => c[i] # c[j]}
            : n \in 0..MaxCorpus }

\* metadata.get(key, default)
Get(metadata, key, default) ==
    IF key \in DOMAIN metadata THEN metadata[key] ELSE default

\* metadata.get(key) where the code only tests the result for truth: None
\* and the empty string are both false
GetText(metadata, key) == Get(metadata, key, "")
GetChars(metadata, key) == Get(metadata, key, <<>>)

\* ── The corpus store (ChromaDB collection) ─────────────────────────────
\* collection.get(include=[...]): every record, in the store's order
StoreGetAll(c) == c

\* collection.get(where={"profesor": name}): exact equality on the field
StoreGetWhere(c, name) ==
    SelectIdx(c, {i \in 1..Len(c) : "profesor" \in DOMAIN c[i].metadata
                                    /\ c[i].metadata.profesor = name})

\* ── Aggregation helpers ────────────────────────────────────────────────
\* the distinct elements of s in order of first occurrence: the key order
\* of a dict filled while scanning s
RECURSIVE Dedup(_)
Dedup(s) ==
    IF s = <<>> THEN <<>>
    ELSE LET init == Dedup(SubSeq(s, 1, Len(s) - 1))
         IN  IF s[Len(s)] \in Range(init) THEN init ELSE Append(init, s[Len(s)])

Count(s, x) == Cardinality({i \in 1..Len(s) : s[i] = x})

\* d[k] = d.get(k, 0) + 1 for every k of s: the dict as its items, in
\* insertion order
Histogram(s) ==
    LET ks == Dedup(s) IN [i \in 1..Len(ks) |-> [k |-> ks[i], n |-> Count(s, ks[i])]]

\* sorted(d.items(), key=lambda x: x[1], reverse=True)
SortByCountDesc(h) == SortDesc([i \in 1..Len(h) |-> [key |-> h[i].n, item |-> h[i]]])

\* sorted(d.items(), key=lambda x: x[0], reverse=True) for text keys
SortByKeyDesc(h) ==
    SortDesc([i \in 1..Len(h) |->
                [key |-> Cardinality({j \in 1..Len(h) : StrLess(h[j].k, h[i].k)}),
                 item |-> h[i]]])

\* sorted(list(S), reverse=True) for a set of texts
SortedDesc(S) ==
    [p \in 1..Cardinality(S) |->
        CHOOSE x \in S : Cardinality({y \in S : StrLess(x, y)}) = p - 1]

\* ── get_database_stats ─────────────────────────────────────────────────
empty_stats ==
    [total_documents |-> 0, total_profesores |-> 0, tipos_produccion |-> <<>>,
     anos_cubiertos |-> <<>>, anos_publicacion |-> <<>>,
     categorias_populares |-> <<>>]

\* the years the scan collects: fecha[:4] of every record whose fecha is
\* non-empty, in scan order
StatsYears(metas) ==
    LET dated == SelectIdx(metas, {i \in 1..Len(metas) :
                                      GetChars(metas[i], "fecha") # <<>>})
    IN  [i \in 1..Len(dated) |-> Prefix(dated[i].fecha, 4)]

\* the full scan of get_database_stats over the fetched records
ScanStats(all_data) ==
    LET metas == [i \in 1..Len(all_data) |-> all_data[i].metadata]
        tipos == [i \in 1..Len(metas) |-> Get(metas[i], "tipo_produccion", T_Unknown)]
        cats  == [i \in 1..Len(metas) |-> Get(metas[i], "categorias", "Unknown")]
        profesores == {GetText(metas[i], "profesor") : i \in 1..Len(metas)} \ {""}
    IN  IF Len(all_data) = 0 THEN empty_stats
        ELSE [total_documents      |-> Len(all_data),
              total_profesores     |-> Cardinality(profesores),
              tipos_produccion     |-> SortByCountDesc(Histogram(tipos)),
              anos_cubiertos       |-> SortedDesc(Range(StatsYears(metas))),
              anos_publicacion     |-> SortByKeyDesc(Histogram(StatsYears(metas))),
              categorias_populares |-> Prefix(SortByCountDesc(Histogram(cats)), 10)]

\* Mutant of Truthy: a stats object without documents counts as no cache.
Truthy_ZeroIsFalse(cache) ==
    cache # None /\ DOMAIN cache # {} /\ cache.total_documents # 0

\* bool(self._stats_cache): None and the empty dict are false
Truthy(cache) == cache # None /\ DOMAIN cache # {}

\* Mutant of CacheHit: the age comparison is reversed.
CacheHit_Reversed(t) ==
    Truthy(stats_cache) /\ (t - stats_cache_time) > STATS_CACHE_TTL

\* Mutant of CacheHit: a cached value aged exactly the TTL still counts as fresh.
CacheHit_Inclusive(t) ==
    Truthy(stats_cache) /\ (t - stats_cache_time) <= STATS_CACHE_TTL

\* `self._stats_cache and (now - self._stats_cache_time) < STATS_CACHE_TTL`
CacheHit(t) == Truthy(stats_cache) /\ (t - stats_cache_time) < STATS_CACHE_TTL

\* SearchEngine.get_database_stats, one whole call at clock time `now`
GetDatabaseStats ==
    /\ IF CacheHit(now)
       THEN /\ call' = [op |-> "get_database_stats", at |-> now,
                        result |-> stats_cache, scanned |-> FALSE,
                        corpus |-> corpus, before |-> lastScan]
            /\ UNCHANGED <<stats_cache, stats_cache_time, lastScan>>
       ELSE LET stats == ScanStats(StoreGetAll(corpus))
            IN  /\ stats_cache' = stats
                /\ stats_cache_time' = now
                /\ call' = [op |-> "get_database_stats", at |-> now,
                            result |-> stats, scanned |-> TRUE,
                            corpus |-> corpus, before |-> lastScan]
                /\ lastScan' = [at |-> now, result |-> stats]
    /\ UNCHANGED <<corpus, now, app, auth, threads>>

\* ── Environment of the engine ──────────────────────────────────────────
Delays == {150, 299, 300}

\* time passes between two calls
Tick ==
    \E d \in Delays :
        /\ now + d <= MaxNow
        /\ now' = now + d
        /\ UNCHANGED <<corpus, stats_cache, stats_cache_time, call, lastScan, app, auth, threads>>

\* the records an ingestion run may add while the engine is up
IngestPool == {r \in RecordPool : r.id \in {3, 5}}

\* load_data_to_chroma: coleccion.add appends records to the collection
AddRecord ==
    \E r \in IngestPool :
        /\ Len(corpus) < MaxCorpus
        /\ r \notin Range(corpus)
        /\ corpus' = Append(corpus, r)
        /\ UNCHANGED <<now, stats_cache, stats_cache_time, call, lastScan, app, auth, threads>>

\* setup_chroma_collection: the collection is deleted and created empty
ResetCollection ==
    /\ corpus # <<>>
    /\ corpus' = <<>>
    /\ UNCHANGED <<now, stats_cache, stats_cache_time, call, lastScan, app, auth, threads>>

NoCall == [op |-> "none"]
NoApp == [pc |-> "idle"]

\* SearchEngine.__init__ over the collection as the ingestion left it
InitStats ==
    /\ corpus \in {c \in Corpora : Range(c) \subseteq IngestPool /\ Len(c) <= 1}
    /\ now = 0
    /\ stats_cache = None
    /\ stats_cache_time = 0
    /\ call = NoCall
    /\ lastScan = None
    /\ auth = EmptyDatabase
    /\ threads = NoThreads
    /\ app = NoApp

NextStats == GetDatabaseStats \/ Tick \/ AddRecord \/ ResetCollection

SpecStats == InitStats /\ [][NextStats]_vars

\* ── Claims on the statistics cache ─────────────────────────────────────
IsStatsCall == call.op = "get_database_stats"

\* the call came less than the TTL after the latest recomputation before it
WithinTTL == /\ IsStatsCall
             /\ call.before # None
             /\ call.at - call.before.at < STATS_CACHE_TTL

\* the call found nothing cached, or a value aged the TTL or more
Expired == /\ IsStatsCall
           /\ \/ call.before = None
              \/ call.at - call.before.at >= STATS_CACHE_TTL

\* C1: a call to get_database_stats made less than 300 seconds after the
\* call that last recomputed returns exactly the value that call returned
\* and scans nothing, whatever happened to the corpus in between.
C1_CachedWithinTTL ==
    WithinTTL => (call.result = call.before.result /\ ~call.scanned)

\* C1 witness: a call within the TTL answered from the cache although the
\* corpus had changed since the scan (a scan would have returned otherwise).
C1_Witness ==
    /\ WithinTTL
    /\ call.at > call.before.at
    /\ ~call.scanned
    /\ ScanStats(call.corpus) # call.result

\* C2: a call made with nothing cached, or 300 seconds or more after the
\* last recomputation, scans the corpus, returns the aggregates of the
\* corpus as it is at that call and stores them with that call's time; and
\* nothing but such a call ever changes the cache slot.
C2_StaysUntilRecomputed ==
    (stats_cache' # stats_cache \/ stats_cache_time' # stats_cache_time)
        => /\ call'.op = "get_database_stats"
           /\ call'.scanned
           /\ call'.at = now
           /\ ~CacheHit(now)
           /\ stats_cache' = call'.result
           /\ stats_cache_time' = now

C2_RecomputeWhenExpired ==
    /\ [](Expired => /\ call.scanned
                     /\ call.result = ScanStats(call.corpus)
                     /\ stats_cache = call.result
                     /\ stats_cache_time = call.at)
    /\ [][C2_StaysUntilRecomputed]_vars

\* C2 witness: a recomputation after expiry that returned something other
\* than the value cached before.
C2_Witness ==
    /\ Expired
    /\ call.before # None
    /\ call.scanned
    /\ call.result # call.before.result
    /\ call.result.total_documents = 2

IsEmptyStats(st) ==
    /\ st.total_documents = 0
    /\ st.total_profesores = 0
    /\ st.tipos_produccion = <<>>
    /\ st.anos_cubiertos = <<>>
    /\ st.anos_publicacion = <<>>
    /\ st.categorias_populares = <<>>

\* C3: a scan of a corpus with zero records returns the all-zero, all-empty
\* stats object, that object is what the cache then holds, and a call within
\* 300 seconds of that scan returns the same empty object without scanning,
\* even when the corpus has records by then.
C3_EmptyStatsCached ==
    /\ (IsStatsCall /\ call.scanned /\ call.corpus = <<>>)
          => (IsEmptyStats(call.result) /\ stats_cache = call.result)
    /\ (WithinTTL /\ IsEmptyStats(call.before.result))
          => (call.result = call.before.result /\ ~call.scanned)

\* C3 witness: the empty object served from the cache over a corpus that is
\* no longer empty.
C3_Witness ==
    /\ WithinTTL
    /\ IsEmptyStats(call.before.result)
    /\ IsEmptyStats(call.result)
    /\ ~call.scanned
    /\ Len(call.corpus) > 0

\* ── normalize_text (src/src/utils/text_utils.py) ───────────────────────
UpperCase ==
    [A |-> "a", B |-> "b", C |-> "c", D |-> "d", E |-> "e", F |-> "f",
     G |-> "g", H |-> "h", I |-> "i", J |-> "j", K |-> "k", L |-> "l",
     M |-> "m", N |-> "n", O |-> "o", P |-> "p", Q |-> "q", R |-> "r",
     S |-> "s", T |-> "t", U |-> "u", V |-> "v", W |-> "w", X |-> "x",
     Y |-> "y", Z |-> "z", I_ACUTE |-> "i_acute", N_TILDE |-> "n_tilde"]

LowerLetters == {UpperCase[c] : c \in DOMAIN UpperCase}

\* str.lower(), one character
LowerChar(c) == IF c \in DOMAIN UpperCase THEN UpperCase[c] ELSE c

\* unicodedata.normalize('NFKD', c): the compatibility decomposition
Nfkd(c) ==
    CASE c = "i_acute" -> <<"i", "COMB_ACUTE">>
      [] c = "I_ACUTE" -> <<"I", "COMB_ACUTE">>
      [] c = "n_tilde" -> <<"n", "COMB_TILDE">>
      [] c = "N_TILDE" -> <<"N", "COMB_TILDE">>
      [] c = "o_acute" -> <<"o", "COMB_ACUTE">>
      [] c = "fi_LIGATURE" -> <<"f", "i">>
      [] c = "TM_SIGN" -> <<"T", "M">>
      [] OTHER -> <<c>>

\* unicodedata.combining(c) # 0
IsCombining(c) == c \in {"COMB_ACUTE", "COMB_TILDE"}

\* \s of the re module
IsSpace(c) == c \in {" ", "TAB", "NEWLINE"}

\* \w of the re module on str: letters, digits and the underscore
IsWord(c) ==
    \/ c \in DOMAIN UpperCase
    \/ c \in LowerLetters
    \/ c = "fi_LIGATURE"
    \/ IsDigit(c)
    \/ c = "_"

RECURSIVE FlatMapNfkd(_)
FlatMapNfkd(s) == IF s = <<>> THEN <<>> ELSE Nfkd(Head(s)) \o FlatMapNfkd(Tail(s))

\* re.sub(r'\s+', ' ', text): every run of whitespace becomes one space
RECURSIVE CollapseSpaces(_)
CollapseSpaces(s) ==
    IF s = <<>> THEN <<>>
    ELSE IF IsSpace(Head(s))
         THEN IF Len(s) > 1 /\ IsSpace(s[2])
              THEN CollapseSpaces(Tail(s))
              ELSE <<" ">> \o CollapseSpaces(Tail(s))
         ELSE <<Head(s)>> \o CollapseSpaces(Tail(s))

\* str.strip()
RECURSIVE Strip(_)
Strip(s) ==
    IF s = <<>> THEN <<>>
    ELSE IF IsSpace(Head(s)) THEN Strip(Tail(s))
    ELSE IF IsSpace(s[Len(s)]) THEN Strip(SubSeq(s, 1, Len(s) - 1))
    ELSE s

\* normalize_text for str input (other input returns "" at the first test)
NormalizeText(text) ==
    IF text = <<>> THEN <<>>
    ELSE LET lowered  == [i \in 1..Len(text) |-> LowerChar(text[i])]
             decomp   == FlatMapNfkd(lowered)
             unmarked == SelectIdx(decomp, {i \in 1..Len(decomp) : ~IsCombining(decomp[i])})
             cleaned  == [i \in 1..Len(unmarked) |->
                             IF IsWord(unmarked[i]) \/ IsSpace(unmarked[i])
                             THEN unmarked[i] ELSE " "]
         IN  Strip(CollapseSpaces(cleaned))

\* ── float() ────────────────────────────────────────────────────────────
\* float(s) for decimal notation: surrounding whitespace is ignored, then an
\* optional sign, digits with at most one decimal point and at least one
\* digit.  The value is in hundredths (the modelled texts carry at most two
\* decimals).  Anything else is a ValueError here; the spellings "inf",
\* "nan" and exponents, which float() also accepts, do not occur in the
\* modelled texts.
ParseFloat(s) ==
    LET t      == Strip(s)
        signed == t # <<>> /\ Head(t) \in {"+", "-"}
        body   == IF signed THEN Tail(t) ELSE t
        parts  == Split(body, ".")
        int    == parts[1]
        frac   == IF Len(parts) = 2 THEN parts[2] ELSE <<>>
        ok     == /\ Len(parts) \in {1, 2}
                  /\ AllDigits(int) /\ AllDigits(frac)
                  /\ Len(int) + Len(frac) >= 1
        frac2  == Prefix(frac \o <<"0", "0">>, 2)
        mag    == ToInt(int) * 100 + ToInt(frac2)
    IN  IF ~ok THEN [ok |-> FALSE, val |-> 0]
        ELSE [ok |-> TRUE, val |-> IF signed /\ Head(t) = "-" THEN -mag ELSE mag]

\* round(x, 3) of a non-negative number given in units of 1/10000: the
\* result in units of 1/1000, a tie going to the even neighbour
Round3(x) ==
    LET q == x \div 10
        r == x % 10
    IN  IF r < 5 THEN q
        ELSE IF r > 5 THEN q + 1
        ELSE IF q % 2 = 0 THEN q ELSE q + 1

\* ── search ─────────────────────────────────────────────────────────────
\* bool(filters): None and the empty dict are false
HasFilters(filters) == filters # None /\ DOMAIN filters # {}

\* Mutant of EffectiveLimit: the lower clamp is missing.
EffectiveLimit_NoFloor(limit) == Min(limit, MAX_RESULTS)

\* `limit = max(1, min(limit, MAX_RESULTS))`
EffectiveLimit(limit) == Max(1, Min(limit, MAX_RESULTS))

\* SearchEngine._build_where_clause: the filters the store applies itself
BuildWhereClause(filters) ==
    IF ~HasFilters(filters) THEN <<>>
    ELSE [k \in DOMAIN filters \cap {"profesor", "tipo_produccion", "q_sjr"} |->
             IF k = "tipo_produccion" THEN NormalizeText(filters[k])
             ELSE filters[k]]

\* the store's equality predicate: every key of the clause is present in
\* the record's metadata with that value
StoreMatches(metadata, where) ==
    \A k \in DOMAIN where : k \in DOMAIN metadata /\ metadata[k] = where[k]

\* SearchEngine._passes_post_filters
PassesPostFilters(metadata, filters) ==
    LET fecha == GetChars(metadata, "fecha")
        rango == filters.fecha_range
        inicio == Get(rango, "inicio", <<>>)
        fin    == Get(rango, "fin", <<>>)
        if_sjr == GetChars(metadata, "if_sjr")
    IN  IF /\ "fecha_range" \in DOMAIN filters
           /\ fecha # <<>>
           /\ \/ inicio # <<>> /\ StrLess(fecha, inicio)
              \/ fin # <<>> /\ StrLess(fin, fecha)
        THEN FALSE
        ELSE IF "min_if_sjr" \in DOMAIN filters /\ if_sjr # <<>>
             THEN /\ ParseFloat(if_sjr).ok
                  /\ ~(ParseFloat(if_sjr).val < filters.min_if_sjr)
             ELSE TRUE

\* Mutant of RelevanceScore: the clamp at zero is missing.
RelevanceScore_NoClamp(distance) == 10000 - distance

\* `relevance_score = max(0, 1 - distance)`, in units of 1/10000
RelevanceScore(distance) == Max(0, 10000 - distance)

\* one entry of the result list (the keys the pool's metadata can fill)
ResultEntry(cand) ==
    [id              |-> cand.rec.id,
     relevance_score |-> Round3(RelevanceScore(cand.distance)),
     distance        |-> Round3(cand.distance),
     content         |-> cand.rec.document,
     metadata        |-> cand.rec.metadata,
     profesor        |-> Get(cand.rec.metadata, "profesor", "Unknown"),
     tipo_produccion |-> Get(cand.rec.metadata, "tipo_produccion", <<>>),
     fecha           |-> Get(cand.rec.metadata, "fecha", <<>>),
     categorias      |-> Get(cand.rec.metadata, "categorias", ""),
     if_sjr          |-> Get(cand.rec.metadata, "if_sjr", <<>>)]

\* Mutant of SortResults: the result list is left in the store's order.
SortResults_Unsorted(results) == results

\* `results.sort(key=lambda x: x["relevance_score"], reverse=True)`
SortResults(results) ==
    SortDesc([i \in 1..Len(results) |->
                 [key |-> results[i].relevance_score, item |-> results[i]]])

\* Mutant of ProcessSearchResults: an impact factor float() rejects is not
\* caught per record, and the whole result list is lost.
ProcessSearchResults_Abort(cands, filters) ==
    IF /\ HasFilters(filters)
       /\ "min_if_sjr" \in DOMAIN filters
       /\ \E i \in 1..Len(cands) :
             /\ GetChars(cands[i].rec.metadata, "if_sjr") # <<>>
             /\ ~ParseFloat(cands[i].rec.metadata.if_sjr).ok
    THEN <<>>
    ELSE LET kept == SelectIdx(cands, {i \in 1..Len(cands) :
                         ~(HasFilters(filters)
                             /\ ~PassesPostFilters(cands[i].rec.metadata, filters))})
         IN  SortResults([i \in 1..Len(kept) |-> ResultEntry(kept[i])])

\* SearchEngine._process_search_results over the candidates of one query
ProcessSearchResults(cands, filters) ==
    LET kept == SelectIdx(cands, {i \in 1..Len(cands) :
                    ~(HasFilters(filters)
                        /\ ~PassesPostFilters(cands[i].rec.metadata, filters))})
    IN  SortResults([i \in 1..Len(kept) |-> ResultEntry(kept[i])])

\* collection.query(query_texts, n_results, where): n_results of the
\* records that match the clause (all of them when fewer match), each with
\* its distance to the query.  Which records, in which order and at which
\* distances is the store's business: every answer is possible.
DistanceValues == {0, 4321, 12000}

StoreQuery(c, n_results, where) ==
    LET matching == {c[i] : i \in {j \in 1..Len(c) : StoreMatches(c[j].metadata, where)}}
        k == Max(0, Min(n_results, Cardinality(matching)))
    IN  {cs \in [1..k -> [rec : matching, distance : DistanceValues]] :
            \A i, j \in 1..k : i # j => cs[i].rec # cs[j].rec}

Queries == { <<"R", "e", "d", "e", "s">>, <<" ", "I_ACUTE", "A", "!">> }

Limits == {-5, 0, 1, 2, 101}

F_2021_01_01 == <<"2","0","2","1","-","0","1","-","0","1">>
F_2022_12_31 == <<"2","0","2","2","-","1","2","-","3","1">>

FilterSets ==
    { None,
      <<>>,
      [min_if_sjr |-> 100],
      [profesor |-> "Ana Gomez"],
      [tipo_produccion |-> <<"A", "r", "t", "I_ACUTE", "c", "u", "l", "o">>],
      [fecha_range |-> [inicio |-> F_2021_01_01, fin |-> F_2022_12_31]],
      [fecha_range |-> [inicio |-> F_2021_01_01], min_if_sjr |-> 100] }

\* the caller has taken the value the engine returned
Return ==
    /\ call.op # "none"
    /\ call' = NoCall
    /\ UNCHANGED <<corpus, now, stats_cache, stats_cache_time, lastScan, app, auth, threads>>

\* SearchEngine.search, one whole call
Search ==
    /\ call.op = "none"
    /\ \E query \in Queries, limit \in Limits, filters \in FilterSets :
        LET n_results == EffectiveLimit(limit)
            where_clause == BuildWhereClause(filters)
            normalized_query == NormalizeText(query)
        IN  \E cands \in StoreQuery(corpus, n_results, where_clause) :
                LET processed == ProcessSearchResults(cands, filters)
                IN  /\ call' = [op |-> "search", query |-> query, limit |-> limit,
                                filters |-> filters,
                                sent |-> [query_texts |-> normalized_query,
                                          n_results |-> n_results,
                                          where |-> where_clause],
                                returned |-> cands,
                                total_results |-> Len(processed),
                                results |-> processed]
                    /\ UNCHANGED <<corpus, now, stats_cache, stats_cache_time,
                                   lastScan, app, auth, threads>>

\* the records of the collections searched
SearchPool == {r \in RecordPool : r.id \in {1, 2, 3, 5, 6}}

InitSearch ==
    /\ corpus \in {c \in Corpora : /\ Range(c) \subseteq SearchPool
                                   /\ \A i, j \in 1..Len(c) : i < j => c[i].id < c[j].id}
    /\ now = 0
    /\ stats_cache = None
    /\ stats_cache_time = 0
    /\ call = NoCall
    /\ lastScan = None
    /\ auth = EmptyDatabase
    /\ threads = NoThreads
    /\ app = NoApp

NextSearch == Search \/ Return

SpecSearch == InitSearch /\ [][NextSearch]_vars

\* ── Claims on search ───────────────────────────────────────────────────
IsSearchCall == call.op = "search"

\* C4: for every integer limit, the number of candidates search requests
\* from the store is max(1, min(limit, 100)), and the result list is never
\* longer than that effective limit.
C4_LimitClamped ==
    IsSearchCall =>
        /\ call.sent.n_results >= 1
        /\ call.sent.n_results <= 100
        /\ (call.limit \in 1..100 => call.sent.n_results = call.limit)
        /\ (call.limit < 1 => call.sent.n_results = 1)
        /\ (call.limit > 100 => call.sent.n_results = 100)
        /\ Len(call.results) <= call.sent.n_results
        /\ call.total_results = Len(call.results)

\* C4 witness: a limit of zero or less over a corpus of several records
\* returned exactly one result.
C4_Witness ==
    /\ IsSearchCall
    /\ call.limit <= 0
    /\ Len(corpus) >= 2
    /\ ~HasFilters(call.filters)
    /\ Len(call.results) = 1

\* the distance the store gave for the candidate a result was built from
RawDistance(result) ==
    call.returned[CHOOSE i \in 1..Len(call.returned) :
                     call.returned[i].rec.id = result.id].distance

NonIncreasing ==
    \A i, j \in 1..Len(call.results) :
        i < j => call.results[i].relevance_score >= call.results[j].relevance_score

\* C5 as stated: every result has relevance_score = max(0, 1 - distance),
\* in [0,1], and the list is non-increasing in relevance_score whatever the
\* order of the candidates and whichever the post-filters removed.
\* (relevance_score is in thousandths, the store's distance in 1/10000.)
C5_Original ==
    IsSearchCall =>
        /\ \A i \in 1..Len(call.results) :
              /\ call.results[i].relevance_score * 10
                    = Max(0, 10000 - RawDistance(call.results[i]))
              /\ call.results[i].relevance_score \in 0..1000
        /\ NonIncreasing

\* C5 amended: every result has relevance_score = max(0, 1 - distance)
\* rounded to 3 decimals, in [0,1], and the list is non-increasing in
\* relevance_score.
C5_RoundedScoreSorted ==
    IsSearchCall =>
        /\ \A i \in 1..Len(call.results) :
              /\ call.results[i].relevance_score
                    = Round3(Max(0, 10000 - RawDistance(call.results[i])))
              /\ call.results[i].relevance_score \in 0..1000
        /\ NonIncreasing

\* C5 witness: the store returned three candidates in increasing order of
\* relevance, a post-filter removed one of them, and the two results came
\* back with a score clamped at zero last.
C5_Witness ==
    /\ IsSearchCall
    /\ Len(call.returned) = 3
    /\ call.returned[1].distance > call.returned[2].distance
    /\ call.returned[2].distance > call.returned[3].distance
    /\ Len(call.results) = 2
    /\ call.results[1].relevance_score > 0
    /\ call.results[2].relevance_score = 0
    /\ RawDistance(call.results[2]) > 10000

\* C6 as stated: with a min_if_sjr filter every result has an impact
\* factor that parses as a number and is >= the filter value; a candidate
\* whose impact factor is missing, empty or non-numeric is excluded.
C6_MinImpactFactor ==
    (IsSearchCall /\ HasFilters(call.filters) /\ "min_if_sjr" \in DOMAIN call.filters)
        => \A i \in 1..Len(call.results) :
              /\ ParseFloat(call.results[i].if_sjr).ok
              /\ ParseFloat(call.results[i].if_sjr).val >= call.filters.min_if_sjr

\* ── get_profesor_profile and get_professor_documents ───────────────────
\* `sub in s` for str
Contains(s, sub) ==
    \E i \in 0..(Len(s) - Len(sub)) : SubSeq(s, i + 1, i + Len(sub)) = sub

Lower(s) == [i \in 1..Len(s) |-> LowerChar(s[i])]

W_docencia == <<"d", "o", "c", "e", "n", "c", "i", "a">>
W_proyecto == <<"p", "r", "o", "y", "e", "c", "t", "o">>

\* the work dict built for one record (the keys the pool's metadata fills)
Work(rec) ==
    [id              |-> rec.id,
     tipo_produccion |-> Get(rec.metadata, "tipo_produccion", <<>>),
     fecha           |-> Get(rec.metadata, "fecha", <<>>),
     categorias      |-> Get(rec.metadata, "categorias", ""),
     if_sjr          |-> Get(rec.metadata, "if_sjr", <<>>),
     content         |-> rec.document]

\* Mutant of Bucket: the final else is missing, a work that is neither
\* docencia nor proyecto goes nowhere.
Bucket_NoElse(rec) ==
    LET tipo_lower == Lower(Get(rec.metadata, "tipo_produccion", T_Unknown))
    IN  IF Contains(tipo_lower, W_docencia) THEN "docencia"
        ELSE IF Contains(tipo_lower, W_proyecto) THEN "proyectos"
        ELSE "none"

\* the bucket of a work: docencia, proyectos or investigacion
Bucket(rec) ==
    LET tipo_lower == Lower(Get(rec.metadata, "tipo_produccion", T_Unknown))
    IN  IF Contains(tipo_lower, W_docencia) THEN "docencia"
        ELSE IF Contains(tipo_lower, W_proyecto) THEN "proyectos"
        ELSE "investigacion"

\* Mutant of SortWorksByDate: reverse=True is missing, oldest first.
SortWorksByDate_Ascending(works) ==
    SortDesc([i \in 1..Len(works) |->
                 [key |-> 0 - SafeParseDate(works[i].fecha), item |-> works[i]]])

\* `works.sort(key=lambda x: self._safe_parse_date(x["fecha"]), reverse=True)`
SortWorksByDate(works) ==
    SortDesc([i \in 1..Len(works) |->
                 [key |-> SafeParseDate(works[i].fecha), item |-> works[i]]])

\* the years collected for años_activo: fecha[:4] of every record whose
\* fecha is non-empty
ActiveYears(results) ==
    {Prefix(results[i].metadata.fecha, 4) :
        i \in {j \in 1..Len(results) : GetChars(results[j].metadata, "fecha") # <<>>}}

\* the profile get_profesor_profile builds from the records fetched
BuildProfile(results, profesor_name) ==
    LET works  == [i \in 1..Len(results) |-> Work(results[i])]
        sorted == SortWorksByDate(works)
        InBucket(b) == SelectIdx(works, {i \in 1..Len(results) : Bucket(results[i]) = b})
    IN  [profesor |-> profesor_name,
         works    |-> sorted,
         estadisticas |->
            [total_trabajos     |-> Len(results),
             tipos_produccion   |-> Histogram([i \in 1..Len(results) |->
                                      Get(results[i].metadata, "tipo_produccion", T_Unknown)]),
             anos_activo        |-> SortedDesc(ActiveYears(results)),
             categorias         |-> {GetText(results[i].metadata, "categorias") :
                                        i \in 1..Len(results)} \ {""},
             trabajos_recientes |-> Prefix(sorted, 10),
             docencia           |-> InBucket("docencia"),
             investigacion      |-> InBucket("investigacion"),
             proyectos          |-> InBucket("proyectos")]]

\* Mutant of ProfileOf: the test for an empty answer is missing.
ProfileOf_NoEmptyTest(results, profesor_name) == BuildProfile(results, profesor_name)

\* get_profesor_profile after the fetch: None when the store found nothing
ProfileOf(results, profesor_name) ==
    IF Len(results) = 0 THEN None ELSE BuildProfile(results, profesor_name)

\* items[:limit] of Python, also for a negative limit
SliceTo(s, limit) ==
    IF limit >= 0 THEN Prefix(s, limit) ELSE SubSeq(s, 1, Max(0, Len(s) + limit))

\* Mutant of DocumentsOf: the items are cut to the limit in the store's order.
DocumentsOf_Unsorted(results, limit) ==
    LET top == SliceTo(results, limit) IN [i \in 1..Len(top) |-> top[i].document]

\* get_professor_documents after the fetch
DocumentsOf(results, limit) ==
    IF Len(results) = 0 THEN <<>>
    ELSE LET items == SortDesc([i \in 1..Len(results) |->
                         [key  |-> SafeParseDate(Get(results[i].metadata, "fecha", <<>>)),
                          item |-> results[i]]])
             top   == SliceTo(items, limit)
         IN  [i \in 1..Len(top) |-> top[i].document]

Names == {"Ana Gomez", "ana gomez", "Ana Gomes", "Luis Perez", "Nadie"}

DocLimits == {0, 1, 2, 20}

\* SearchEngine.get_profesor_profile, one whole call
GetProfesorProfile ==
    /\ call.op = "none"
    /\ \E profesor_name \in Names :
          call' = [op |-> "get_profesor_profile", name |-> profesor_name,
                   corpus |-> corpus,
                   result |-> ProfileOf(StoreGetWhere(corpus, profesor_name),
                                        profesor_name)]
    /\ UNCHANGED <<corpus, now, stats_cache, stats_cache_time, lastScan, app, auth, threads>>

\* SearchEngine.get_professor_documents, one whole call
GetProfessorDocuments ==
    /\ call.op = "none"
    /\ \E profesor_name \in Names, limit \in DocLimits :
          call' = [op |-> "get_professor_documents", name |-> profesor_name,
                   limit |-> limit, corpus |-> corpus,
                   result |-> DocumentsOf(StoreGetWhere(corpus, profesor_name), limit)]
    /\ UNCHANGED <<corpus, now, stats_cache, stats_cache_time, lastScan, app, auth, threads>>

\* A collection with more works of one professor than trabajos_recientes
\* keeps: BigSize records of "Ana Gomez", their dates cycling through
\* parseable, equal and unparseable ones.
BigSize == 12

BigDates == << F_2021_06_01, F_dash, F_2023_01_01, F_01_06_2021, F_2021,
               F_empty, F_2023_01_01 >>

BigCorpus ==
    [i \in 1..BigSize |->
        [id |-> 100 + i, document |-> <<"doc", 100 + i>>,
         metadata |-> [profesor |-> "Ana Gomez", tipo_produccion |-> T_articulo,
                       fecha |-> BigDates[((i - 1) % Len(BigDates)) + 1],
                       if_sjr |-> IF_empty, categorias |-> "redes"]]]

InitProfile ==
    /\ corpus \in Corpora \cup {BigCorpus}
    /\ now = 0
    /\ stats_cache = None
    /\ stats_cache_time = 0
    /\ call = NoCall
    /\ lastScan = None
    /\ auth = EmptyDatabase
    /\ threads = NoThreads
    /\ app = NoApp

NextProfile == GetProfesorProfile \/ GetProfessorDocuments \/ Return

SpecProfile == InitProfile /\ [][NextProfile]_vars

\* ── Claims on the professor profile ────────────────────────────────────
IsProfileCall == call.op = "get_profesor_profile" /\ call.result # None

IsDocumentsCall == call.op = "get_professor_documents"

\* the records of the corpus whose professor is exactly the name asked for
RecordsOf(c, name) ==
    {c[i] : i \in {j \in 1..Len(c) : /\ "profesor" \in DOMAIN c[j].metadata
                                     /\ c[j].metadata.profesor = name}}

\* a date one of the formats of _safe_parse_date accepts
Parseable(fecha) ==
    /\ fecha \notin Sentinels
    /\ \E i \in 1..Len(DateFormats) : Strptime(fecha, DateFormats[i]) # ValueError

RecordDate(rec) == Get(rec.metadata, "fecha", <<>>)

\* y is the 4-digit year of the date the text parses to
IsYearOf(y, fecha) ==
    /\ Len(y) = 4
    /\ AllDigits(y)
    /\ ToInt(y) = SafeParseDate(fecha) \div 10000

\* C7 as stated: every element of años_activo is the 4-digit year of some
\* record of the professor whose date is parseable; a record whose date is
\* a sentinel or unparseable contributes no element.
C7_ActiveYears ==
    IsProfileCall =>
        \A y \in Range(call.result.estadisticas.anos_activo) :
            \E rec \in RecordsOf(call.corpus, call.name) :
                Parseable(RecordDate(rec)) /\ IsYearOf(y, RecordDate(rec))

\* where a work of the profile stood in the store's answer
CorpusPos(work) == CHOOSE i \in 1..Len(call.corpus) : call.corpus[i].id = work.id

WorksSortedAndComplete ==
    LET works == call.result.works
        recent == call.result.estadisticas.trabajos_recientes
        n == Cardinality(RecordsOf(call.corpus, call.name))
    IN  /\ Len(works) = n
        /\ {works[i].id : i \in 1..n} = {r.id : r \in RecordsOf(call.corpus, call.name)}
        /\ Len(recent) = Min(10, n)
        /\ \A i \in 1..Len(recent) : recent[i] = works[i]
        /\ \A i, j \in 1..n :
              i < j => /\ SafeParseDate(works[i].fecha) >= SafeParseDate(works[j].fecha)
                       /\ (SafeParseDate(works[i].fecha) = SafeParseDate(works[j].fecha)
                              => CorpusPos(works[i]) < CorpusPos(works[j]))

\* C8 as stated: trabajos_recientes is the first min(10, n) of the n works
\* ordered by safely-parsed date descending, every work with a parseable
\* date precedes every work with an unparseable or sentinel date, no work
\* is dropped, and works with equal parsed dates keep their corpus order.
C8_Original ==
    IsProfileCall =>
        /\ WorksSortedAndComplete
        /\ \A i, j \in 1..Len(call.result.works) :
              (Parseable(call.result.works[i].fecha)
                  /\ ~Parseable(call.result.works[j].fecha)) => i < j

\* C8 amended: as stated, except that the works that precede every work
\* with an unparseable or sentinel date are those whose date parses to a
\* date later than the minimum date 0001-01-01 (a work dated 0001-01-01
\* ties with the unparseable ones and keeps its corpus order among them).
C8_RecentWorks ==
    IsProfileCall =>
        /\ WorksSortedAndComplete
        /\ \A i, j \in 1..Len(call.result.works) :
              (/\ Parseable(call.result.works[i].fecha)
               /\ SafeParseDate(call.result.works[i].fecha) > DatetimeMin
               /\ ~Parseable(call.result.works[j].fecha)) => i < j

\* C8 witness: a profile over more than ten works, an undated one among
\* the first of the corpus, whose recent works are the ten first of the
\* sorted list and whose undated works come last.
C8_Witness ==
    /\ IsProfileCall
    /\ Len(call.result.works) > 10
    /\ Len(call.result.estadisticas.trabajos_recientes) = 10
    /\ \E i \in 1..Len(call.corpus) : i < 3 /\ ~Parseable(RecordDate(call.corpus[i]))
    /\ Parseable(call.result.works[8].fecha)
    /\ ~Parseable(call.result.works[Len(call.result.works)].fecha)

\* C9: for a name that matches no record exactly, also one that differs
\* from an existing professor only in case or spelling,
\* get_profesor_profile returns None and get_professor_documents returns
\* the empty list.
C9_NotFound ==
    /\ (call.op = "get_profesor_profile" /\ RecordsOf(call.corpus, call.name) = {})
          => call.result = None
    /\ (IsDocumentsCall /\ RecordsOf(call.corpus, call.name) = {})
          => call.result = <<>>

\* C9 witness: the profile of "ana gomez" asked of a corpus that holds
\* works of "Ana Gomez" only, answered None.
C9_Witness ==
    /\ call.op = "get_profesor_profile"
    /\ call.name = "ana gomez"
    /\ Len(call.corpus) > 0
    /\ \A i \in 1..Len(call.corpus) : call.corpus[i].metadata.profesor = "Ana Gomez"
    /\ call.result = None

\* ── POST /api/search (src/app.py) ──────────────────────────────────────
\* The module start-up leaves search_engine None when get_chroma_collection
\* returned None or raised; otherwise it is a SearchEngine over the
\* collection.  A request runs the handler step by step; `steps` lists
\* what the request has executed so far.
Collection == [name |-> "collection"]

StartUp(collection) ==
    [collection    |-> collection,
     search_engine |-> IF collection # None THEN [collection |-> collection] ELSE None,
     pc            |-> "idle",
     request       |-> None,
     steps         |-> <<>>,
     sent          |-> None,
     returned      |-> <<>>,
     response      |-> None]

Respond(status, body) == [status |-> status, body |-> body]

\* a client posts a SearchRequest
ReceiveSearch ==
    /\ app.pc = "idle"
    /\ \E query \in Queries, limit \in Limits, filters \in FilterSets :
          app' = [app EXCEPT !.pc = "require",
                             !.request = [query |-> query, limit |-> limit,
                                          filters |-> filters],
                             !.steps = <<>>, !.sent = None, !.returned = <<>>,
                             !.response = None]
    /\ UNCHANGED <<corpus, now, stats_cache, stats_cache_time, call, lastScan, auth, threads>>

\* Mutant of EngineMissing: the handler never finds the engine missing.
EngineMissing_Never(search_engine) == FALSE

\* `if not search_engine` of _require_search_engine
EngineMissing(search_engine) == search_engine = None

\* _require_search_engine(), called before the handler's try block: its
\* HTTPException(503) is the response
RequireSearchEngine ==
    /\ app.pc = "require"
    /\ IF EngineMissing(app.search_engine)
       THEN app' = [app EXCEPT !.pc = "idle",
                               !.steps = Append(@, "require_search_engine"),
                               !.response = Respond(503, "Motor de busqueda no disponible")]
       ELSE app' = [app EXCEPT !.pc = "search",
                               !.steps = Append(@, "require_search_engine")]
    /\ UNCHANGED <<corpus, now, stats_cache, stats_cache_time, call, lastScan, auth, threads>>

\* search_engine.search(...) up to `if not self.collection`: an exception
\* here (no engine object, or no collection) is caught by the handler's
\* `except Exception` and answered 500
EnterSearch ==
    /\ app.pc = "search"
    /\ IF app.search_engine = None \/ app.search_engine.collection = None
       THEN app' = [app EXCEPT !.pc = "idle",
                               !.steps = Append(@, "check_collection"),
                               !.response = Respond(500, "Error en busqueda")]
       ELSE app' = [app EXCEPT !.pc = "prepare",
                               !.steps = Append(@, "check_collection")]
    /\ UNCHANGED <<corpus, now, stats_cache, stats_cache_time, call, lastScan, auth, threads>>

\* the clamp of the limit, the where clause and the query's normalization
PrepareQuery ==
    /\ app.pc = "prepare"
    /\ app' = [app EXCEPT !.pc = "query",
                          !.steps = Append(@, "normalize_text"),
                          !.sent = [query_texts |-> NormalizeText(app.request.query),
                                    n_results |-> EffectiveLimit(app.request.limit),
                                    where |-> BuildWhereClause(app.request.filters)]]
    /\ UNCHANGED <<corpus, now, stats_cache, stats_cache_time, call, lastScan, auth, threads>>

\* self.collection.query(...): the store answers, or fails and the
\* handler's `except Exception` answers 500
QueryStore ==
    /\ app.pc = "query"
    /\ \/ \E cands \in StoreQuery(corpus, app.sent.n_results, app.sent.where) :
             app' = [app EXCEPT !.pc = "process",
                                !.steps = Append(@, "collection.query"),
                                !.returned = cands]
       \/ app' = [app EXCEPT !.pc = "idle",
                             !.steps = Append(@, "collection.query"),
                             !.response = Respond(500, "Error en busqueda")]
    /\ UNCHANGED <<corpus, now, stats_cache, stats_cache_time, call, lastScan, auth, threads>>

\* _process_search_results and the handler's return
ProcessAndRespond ==
    /\ app.pc = "process"
    /\ LET processed == ProcessSearchResults(app.returned, app.request.filters)
       IN  app' = [app EXCEPT !.pc = "idle",
                              !.steps = Append(@, "process_search_results"),
                              !.response = Respond(200,
                                  [query |-> app.request.query,
                                   total_results |-> Len(processed),
                                   results |-> processed])]
    /\ UNCHANGED <<corpus, now, stats_cache, stats_cache_time, call, lastScan, auth, threads>>

InitApp ==
    /\ corpus \in {c \in Corpora : Range(c) \subseteq SearchPool /\ Len(c) <= 1}
    /\ now = 0
    /\ stats_cache = None
    /\ stats_cache_time = 0
    /\ call = NoCall
    /\ lastScan = None
    /\ auth = EmptyDatabase
    /\ threads = NoThreads
    /\ app \in {StartUp(Collection), StartUp(None)}

NextApp ==
    \/ ReceiveSearch
    \/ RequireSearchEngine
    \/ EnterSearch
    \/ PrepareQuery
    \/ QueryStore
    \/ ProcessAndRespond

SpecApp == InitApp /\ [][NextApp]_vars

\* ── Claim on the unavailable store ─────────────────────────────────────
Position(steps, name) == CHOOSE i \in 1..Len(steps) : steps[i] = name

Before(steps, a, b) ==
    b \in Range(steps) => (a \in Range(steps) /\ Position(steps, a) < Position(steps, b))

\* C10: when the corpus store is not initialized a search request is
\* answered 503 (service unavailable, not the 500 of an internal error),
\* and neither the query's normalization nor a store query is ever
\* executed; in every request the availability checks come before the
\* normalization and before the nearest-neighbour query.
C10_UnavailableBeforeQuery ==
    /\ app.collection = None
          => /\ "normalize_text" \notin Range(app.steps)
             /\ "collection.query" \notin Range(app.steps)
             /\ app.sent = None
             /\ (app.response # None => app.response.status = 503)
    /\ (app.response # None /\ app.response.status = 503) => app.collection = None
    /\ Before(app.steps, "require_search_engine", "check_collection")
    /\ Before(app.steps, "check_collection", "normalize_text")
    /\ Before(app.steps, "normalize_text", "collection.query")

\* C10 witness: a request answered 503 without a store being there.
C10_Witness ==
    /\ app.collection = None
    /\ app.request # None
    /\ app.response # None
    /\ app.response.status = 503
    /\ app.steps = <<"require_search_engine">>

\* ── get_all_profesores ─────────────────────────────────────────────────
F_01_06_2023 == <<"0","1","-","0","6","-","2","0","2","3">>

\* The records of the listings: the pool above, a record whose profesor is
\* empty, and a second record of "Luis Perez" that carries the
\* profesor_username key ingestion writes and a day-first date.
ListingPool ==
    RecordPool \cup
    { [id |-> 8, document |-> <<"doc", 8>>,
       metadata |-> [profesor |-> "", profesor_username |-> "",
                     tipo_produccion |-> T_articulo,
                     fecha |-> F_2023_01_01, if_sjr |-> IF_empty,
                     categorias |-> "redes"]],
      [id |-> 9, document |-> <<"doc", 9>>,
       metadata |-> [profesor |-> "Luis Perez", profesor_username |-> "luis.perez",
                     tipo_produccion |-> T_docencia,
                     fecha |-> F_01_06_2023, if_sjr |-> IF_empty,
                     categorias |-> "redes"]] }

ListingCorpora ==
    UNION { {c \in [1..n -> ListingPool] : \A i, j \in 1..n : i # j => c[i] # c[j]}
            : n \in 0..MaxCorpus }

\* the records the scan keeps: those whose profesor is non-empty
WithProfesor(metas) ==
    SelectIdx(metas, {i \in 1..Len(metas) : GetText(metas[i], "profesor") # ""})

\* Mutant of ProfesorKeys: records without a professor are not passed over.
ProfesorKeys_WithEmpty(metas) ==
    Dedup([i \in 1..Len(metas) |-> GetText(metas[i], "profesor")])

\* the keys of the dict the scan fills: professors in order of first record
ProfesorKeys(metas) ==
    Dedup([i \in 1..Len(WithProfesor(metas)) |-> WithProfesor(metas)[i].profesor])

\* profesores_data[profesor] after the scan
ProfesorData(metas, profesor) ==
    LET own == SelectIdx(metas, {i \in 1..Len(metas) :
                                    GetText(metas[i], "profesor") = profesor})
    IN  [name        |-> profesor,
         username    |-> Get(own[1], "profesor_username", ""),
         total_works |-> Len(own),
         work_types  |-> Histogram([i \in 1..Len(own) |->
                                      Get(own[i], "tipo_produccion", T_Unknown)]),
         categories  |-> {GetText(own[i], "categorias") : i \in 1..Len(own)} \ {""}]

\* Mutant of SortProfesores: the dict's values are returned unsorted.
SortProfesores_Unsorted(values) == values

\* sorted(profesores_data.values(), key=lambda x: x["total_works"], reverse=True)
SortProfesores(values) ==
    SortDesc([i \in 1..Len(values) |->
                 [key |-> values[i].total_works, item |-> values[i]]])

AllProfesores(all_results) ==
    LET metas  == [i \in 1..Len(all_results) |-> all_results[i].metadata]
        keys   == ProfesorKeys(metas)
        sorted == SortProfesores([i \in 1..Len(keys) |-> ProfesorData(metas, keys[i])])
    IN  [total_profesores |-> Len(sorted), profesores |-> sorted]

\* SearchEngine.get_all_profesores, one whole call
GetAllProfesores ==
    /\ call.op = "none"
    /\ call' = [op |-> "get_all_profesores", corpus |-> corpus,
                result |-> AllProfesores(StoreGetAll(corpus))]
    /\ UNCHANGED <<corpus, now, stats_cache, stats_cache_time, lastScan, app, auth, threads>>

\* ── get_availability_ranking ───────────────────────────────────────────
\* int(s) for the texts a date prefix can be here: an optional sign and
\* decimal digits; anything else raises ValueError (ok = FALSE)
IntOf(s) ==
    IF s # <<>> /\ AllDigits(s) THEN [ok |-> TRUE, val |-> ToInt(s)]
    ELSE IF Len(s) >= 2 /\ s[1] \in {"-", "+"} /\ AllDigits(Tail(s))
         THEN [ok |-> TRUE, val |-> IF s[1] = "-" THEN 0 - ToInt(Tail(s)) ELSE ToInt(Tail(s))]
    ELSE [ok |-> FALSE, val |-> 0]

\* the test that adds one to recent_publications
IsRecent(meta, current_year) ==
    LET fecha == GetChars(meta, "fecha")
        year  == IntOf(Prefix(fecha, 4))
    IN  fecha # <<>> /\ year.ok /\ current_year - year.val <= 3

\* professors[prof] after the scan
ProfessorLoad(metas, prof, current_year) ==
    LET own == SelectIdx(metas, {i \in 1..Len(metas) :
                                    GetText(metas[i], "profesor") = prof})
    IN  [profesor            |-> prof,
         total_publications  |-> Len(own),
         recent_publications |-> Cardinality({i \in 1..Len(own) :
                                                 IsRecent(own[i], current_year)}),
         categories          |-> {GetText(own[i], "categorias") : i \in 1..Len(own)} \ {""}]

\* `max((p["recent_publications"] for p in ...), default=1) or 1`
MaxRecent(loads) ==
    IF Len(loads) = 0 THEN 1
    ELSE LET mx == CHOOSE r \in {loads[i].recent_publications : i \in 1..Len(loads)} :
                      \A i \in 1..Len(loads) : loads[i].recent_publications <= r
         IN  IF mx = 0 THEN 1 ELSE mx

\* round(n / d, 0) to the nearest integer, ties to even
RoundHalfEven(n, d) ==
    LET q == n \div d
        r == n % d
    IN  IF 2 * r < d THEN q
        ELSE IF 2 * r > d THEN q + 1
        ELSE IF q % 2 = 0 THEN q ELSE q + 1

\* Mutant of AvailabilityScore: the load is not weighted by 0.7.
AvailabilityScore_FullLoad(recent, max_recent) ==
    RoundHalfEven(100 * max_recent - 100 * recent, max_recent)

\* `round(1.0 - (load * 0.7), 2)` with load = recent / max_recent, in
\* hundredths.  CPython's float result equals this rounding for every
\* max_recent below 20 (the two ties that occur, load 1/4 and 3/4, give
\* 0.82 and 0.48).
AvailabilityScore(recent, max_recent) ==
    RoundHalfEven(100 * max_recent - 70 * recent, max_recent)

AvailabilityLabel(score) ==
    IF score >= 70 THEN "Alta" ELSE IF score >= 40 THEN "Media" ELSE "Baja"

\* Mutant of SortRanking: the ranking is returned in scan order.
SortRanking_Unsorted(ranking) == ranking

\* ranking.sort(key=lambda x: x["availability_score"], reverse=True)
SortRanking(ranking) ==
    SortDesc([i \in 1..Len(ranking) |->
                 [key |-> ranking[i].availability_score, item |-> ranking[i]]])

AvailabilityRanking(all_data, current_year) ==
    LET metas == [i \in 1..Len(all_data) |-> all_data[i].metadata]
        keys  == ProfesorKeys(metas)
        loads == [i \in 1..Len(keys) |-> ProfessorLoad(metas, keys[i], current_year)]
        max_recent == MaxRecent(loads)
        Entry(data) ==
            LET score == AvailabilityScore(data.recent_publications, max_recent)
            IN  [profesor            |-> data.profesor,
                 total_publications  |-> data.total_publications,
                 recent_publications |-> data.recent_publications,
                 categories          |-> data.categories,
                 availability_score  |-> score,
                 availability_label  |-> AvailabilityLabel(score)]
    IN  SortRanking([i \in 1..Len(loads) |-> Entry(loads[i])])

\* the values of datetime.now().year the calls are made in
CurrentYears == {2024, 2026}

\* SearchEngine.get_availability_ranking, one whole call
GetAvailabilityRanking ==
    /\ call.op = "none"
    /\ \E current_year \in CurrentYears :
          call' = [op |-> "get_availability_ranking", corpus |-> corpus,
                   current_year |-> current_year,
                   result |-> AvailabilityRanking(StoreGetAll(corpus), current_year)]
    /\ UNCHANGED <<corpus, now, stats_cache, stats_cache_time, lastScan, app, auth, threads>>

InitListing ==
    /\ corpus \in ListingCorpora
    /\ now = 0
    /\ stats_cache = None
    /\ stats_cache_time = 0
    /\ call = NoCall
    /\ lastScan = None
    /\ auth = EmptyDatabase
    /\ threads = NoThreads
    /\ app = NoApp

NextListing == GetAllProfesores \/ GetAvailabilityRanking \/ Return

SpecListing == InitListing /\ [][NextListing]_vars

\* ── Claims on the listings ─────────────────────────────────────────────
IsListingCall == call.op = "get_all_profesores"

\* the position of the first record of a professor in the corpus scan
FirstRecord(c, name) ==
    CHOOSE i \in 1..Len(c) :
        /\ GetText(c[i].metadata, "profesor") = name
        /\ \A j \in 1..(i - 1) : GetText(c[j].metadata, "profesor") # name

\* C11: get_all_profesores returns exactly one entry per distinct
\* non-empty professor string of the corpus, each with the number of that
\* professor's records, ordered by total_works descending; entries with
\* equal total_works are in the order of their first record in the scan.
C11_ProfesoresSorted ==
    IsListingCall =>
        LET ps   == call.result.profesores
            held == {GetText(call.corpus[i].metadata, "profesor") :
                        i \in 1..Len(call.corpus)} \ {""}
        IN  /\ {ps[i].name : i \in 1..Len(ps)} = held
            /\ Len(ps) = Cardinality(held)
            /\ call.result.total_profesores = Len(ps)
            /\ \A i \in 1..Len(ps) :
                  ps[i].total_works =
                     Cardinality({j \in 1..Len(call.corpus) :
                        GetText(call.corpus[j].metadata, "profesor") = ps[i].name})
            /\ \A i, j \in 1..Len(ps) :
                  i < j =>
                     \/ ps[i].total_works > ps[j].total_works
                     \/ /\ ps[i].total_works = ps[j].total_works
                        /\ FirstRecord(call.corpus, ps[i].name)
                              < FirstRecord(call.corpus, ps[j].name)

\* C11 witness: a listing of three professors with one work each, kept in
\* the order of the scan, which is not the order of their names.
C11_Witness ==
    /\ IsListingCall
    /\ Len(call.result.profesores) = 3
    /\ \A i \in 1..3 : call.result.profesores[i].total_works = 1
    /\ call.result.profesores[1].name = "Luis Perez"
    /\ call.result.profesores[2].name = "ana gomez"
    /\ call.result.profesores[3].name = "Ana Gomez"

\* ── Claim on get_professor_documents ───────────────────────────────────
\* the record of the corpus a returned text belongs to
RecordOfDocument(c, doc) == CHOOSE rec \in Range(c) : rec.document = doc

\* C12: for every name and every limit >= 0, get_professor_documents
\* returns at most limit texts (all of them when the professor has fewer),
\* each the text of a distinct record of exactly that professor, in
\* non-increasing order of safely-parsed date, and no record of the
\* professor left out has a parsed date strictly later than a returned one.
C12_DocumentsByDate ==
    (IsDocumentsCall /\ call.limit >= 0) =>
        LET docs == call.result
            own  == RecordsOf(call.corpus, call.name)
            rec(i) == RecordOfDocument(call.corpus, docs[i])
            date(r) == SafeParseDate(RecordDate(r))
            returned == {rec(i) : i \in 1..Len(docs)}
        IN  /\ Len(docs) = Min(call.limit, Cardinality(own))
            /\ \A i \in 1..Len(docs) :
                  docs[i] \in {r.document : r \in own}
            /\ \A i, j \in 1..Len(docs) : i < j =>
                  /\ docs[i] # docs[j]
                  /\ date(rec(i)) >= date(rec(j))
            /\ \A r \in own \ returned : \A q \in returned : date(r) <= date(q)

\* C12 witness: two texts asked of a professor with three records, the
\* most recent of which the store holds last; it is returned first and
\* the oldest is left out.
C12_Witness ==
    /\ IsDocumentsCall
    /\ call.limit = 2
    /\ Cardinality(RecordsOf(call.corpus, call.name)) = 3
    /\ Len(call.result) = 2
    /\ call.result[1] = call.corpus[Len(call.corpus)].document
    /\ call.corpus[1].document \notin Range(call.result)

\* ── calculate_compatibility_score (src/app.py) ─────────────────────────
\* Scores are in units of 1/10000; relevance_score arrives in 1/1000 as
\* search returns it.  The float sums of the code differ from these exact
\* sums by rounding errors far below one unit, and the largest float sum,
\* 0.4 + 0.3 + 0.2 + 0.1, is 0.9999999999999999.

\* str.split() without arguments: the maximal runs of non-whitespace
RECURSIVE Words(_)
Words(s) ==
    IF s = <<>> THEN <<>>
    ELSE IF IsSpace(Head(s)) THEN Words(Tail(s))
    ELSE LET n == IF \E i \in 1..Len(s) : IsSpace(s[i])
                  THEN (CHOOSE i \in 1..Len(s) :
                           IsSpace(s[i]) /\ \A j \in 1..(i - 1) : ~IsSpace(s[j])) - 1
                  ELSE Len(s)
         IN  <<SubSeq(s, 1, n)>> \o Words(SubSeq(s, n + 1, Len(s)))

\* `any(word in categorias_lower for word in text_lower.split() if len(word) > 3)`
AnyWordIn(text, categorias) ==
    \E i \in 1..Len(Words(Lower(text))) :
        /\ Len(Words(Lower(text))[i]) > 3
        /\ Contains(Lower(categorias), Words(Lower(text))[i])

\* the bonus of one profile field: given when the field and the result's
\* categorias are both non-empty and share a word
FieldBonus(result, profile, field, bonus) ==
    IF /\ GetChars(profile, field) # <<>>
       /\ GetChars(result, "categorias") # <<>>
       /\ AnyWordIn(profile[field], result.categorias)
    THEN bonus ELSE 0

\* Mutant of RelevanceTerm: the term falls as the relevance grows.
RelevanceTerm_Inverted(result) == (1000 - Get(result, "relevance_score", 0)) * 4

\* `result.get("relevance_score", 0) * 0.4`
RelevanceTerm(result) == Get(result, "relevance_score", 0) * 4

\* the impact bonus: `min(float(result["if_sjr"]) / 10.0, 0.1)` when the
\* text is non-empty and float() accepts it, nothing otherwise
ImpactBonus(result) ==
    LET text == GetChars(result, "if_sjr")
        f    == ParseFloat(text)
    IN  IF text # <<>> /\ f.ok THEN Min(f.val * 10, 1000) ELSE 0

CompatibilityScore(result, profile) ==
    Min(RelevanceTerm(result)
          + FieldBonus(result, profile, "interests", 3000)
          + FieldBonus(result, profile, "preferred_areas", 2000)
          + ImpactBonus(result),
        10000)

C_redes_de_sensores ==
    <<"r","e","d","e","s"," ","d","e"," ","s","e","n","s","o","r","e","s">>
C_quimica == <<"q","u","i","m","i","c","a">>
P_Redes_IoT == <<"R","e","d","e","s"," ","I","o","T">>
P_red == <<"r","e","d">>
IF_0 == <<"0">>
IF_neg_5 == <<"-","5">>

RelevanceScores == {0, 568, 1000}

\* the results scored: what search returns of a record, in the fields the
\* score reads; one shape lacks relevance_score and if_sjr
CompatResults ==
    [relevance_score : RelevanceScores,
     categorias : {<<>>, C_redes_de_sensores, C_quimica},
     if_sjr : {IF_empty, IF_abc, IF_0, IF_0_5, IF_3, IF_neg_5}]
    \cup [categorias : {C_redes_de_sensores}]

\* the profiles of get_profile, in the fields the score reads
CompatProfiles ==
    [interests : {<<>>, P_Redes_IoT, P_red},
     preferred_areas : {<<>>, P_Redes_IoT, C_quimica}]
    \cup {[skills |-> <<>>]}

\* the scoring loop of the recommendations handler over two results that
\* differ at most in relevance_score
ScoreResults ==
    /\ call.op = "none"
    /\ \E result \in CompatResults, profile \in CompatProfiles, other \in RelevanceScores :
          LET second == IF "relevance_score" \in DOMAIN result
                        THEN [result EXCEPT !.relevance_score = other] ELSE result
          IN  call' = [op |-> "calculate_compatibility_score",
                       profile |-> profile,
                       results |-> <<result, second>>,
                       scores  |-> <<CompatibilityScore(result, profile),
                                     CompatibilityScore(second, profile)>>]
    /\ UNCHANGED <<corpus, now, stats_cache, stats_cache_time, lastScan, app, auth, threads>>

InitCompat ==
    /\ corpus = <<>>
    /\ now = 0
    /\ stats_cache = None
    /\ stats_cache_time = 0
    /\ call = NoCall
    /\ lastScan = None
    /\ auth = EmptyDatabase
    /\ threads = NoThreads
    /\ app = NoApp

NextCompat == ScoreResults \/ Return

SpecCompat == InitCompat /\ [][NextCompat]_vars

\* ── Claims on the compatibility score ──────────────────────────────────
IsCompatCall == call.op = "calculate_compatibility_score"

\* C13 as stated: for every result and profile, also when the impact
\* factor is missing, non-numeric, zero or negative, the compatibility
\* score lies in [0, 1].
C13_ScoreInUnitInterval ==
    IsCompatCall => \A i \in 1..2 : call.scores[i] >= 0 /\ call.scores[i] <= 10000

IsRankingCall == call.op = "get_availability_ranking"

\* C15: every availability_score lies in [0.3, 1.0]; a professor whose
\* recent_publications is the maximum of the ranking, when that maximum
\* is positive, gets 0.3 and the label "Baja"; a professor without recent
\* publications gets 1.0 and the label "Alta", also when nobody has any
\* (the divisor is then 1); the list is in non-increasing order of score.
C15_AvailabilityScore ==
    IsRankingCall =>
        LET rk == call.result
            recents == {0} \cup {rk[i].recent_publications : i \in 1..Len(rk)}
            mx == CHOOSE r \in recents : \A q \in recents : q <= r
        IN  /\ \A i \in 1..Len(rk) :
                  /\ rk[i].availability_score >= 30
                  /\ rk[i].availability_score <= 100
                  /\ (mx > 0 /\ rk[i].recent_publications = mx)
                        => /\ rk[i].availability_score = 30
                           /\ rk[i].availability_label = "Baja"
                  /\ rk[i].recent_publications = 0
                        => /\ rk[i].availability_score = 100
                           /\ rk[i].availability_label = "Alta"
            /\ \A i, j \in 1..Len(rk) :
                  i < j => rk[i].availability_score >= rk[j].availability_score

\* C15 witness: the professor scanned first has the most recent
\* publications and ends last with 0.3, behind one with none at 1.0.
C15_Witness ==
    /\ IsRankingCall
    /\ Len(call.result) = 2
    /\ call.result[1].availability_score = 100
    /\ call.result[1].availability_label = "Alta"
    /\ call.result[2].availability_score = 30
    /\ call.result[2].availability_label = "Baja"
    /\ call.result[2].recent_publications = 2
    /\ GetText(call.corpus[1].metadata, "profesor") = call.result[2].profesor

\* C16 as stated: recent_publications is the number of the professor's
\* records whose date parses, in any format _safe_parse_date accepts, to
\* a year y with current_year - y <= 3, and total_publications is the
\* number of all the professor's records.
C16_RecentPublications ==
    IsRankingCall =>
        \A i \in 1..Len(call.result) :
            LET own == RecordsOf(call.corpus, call.result[i].profesor)
            IN  /\ call.result[i].total_publications = Cardinality(own)
                /\ call.result[i].recent_publications =
                      Cardinality({r \in own :
                          /\ Parseable(RecordDate(r))
                          /\ call.current_year
                                - (SafeParseDate(RecordDate(r)) \div 10000) <= 3})

\* ── normalize_text and generate_username as called ─────────────────────
MaxLen == 3

\* The characters of the inputs: an upper-case and a lower-case letter,
\* accented letters, the compatibility characters U+FB01 and U+2122, a
\* digit, punctuation, the underscore and two kinds of whitespace.
Alphabet ==
    {"A", "b", "I_ACUTE", "n_tilde", "fi_LIGATURE", "TM_SIGN", "7",
     "@", ".", "_", " ", "TAB"}

Texts == UNION {[1..n -> Alphabet] : n \in 0..MaxLen}

\* an argument: a str, or None for input that is not a str
Arguments == {[str |-> t] : t \in Texts} \cup {None}

\* normalize_text from its first test on
NormalizeArgument(text) ==
    IF text = None THEN <<>> ELSE NormalizeText(text.str)

\* normalized.replace(" ", ".")
ReplaceSpaces(s) == [i \in 1..Len(s) |-> IF s[i] = " " THEN "." ELSE s[i]]

\* Mutant of GenerateUsername: the name is not normalized first.
GenerateUsername_Raw(name) ==
    IF name = None THEN <<>> ELSE ReplaceSpaces(name.str)

GenerateUsername(name) == ReplaceSpaces(NormalizeArgument(name))

\* normalize_text called on a text and again on its own output
CallNormalizeText ==
    /\ call.op = "none"
    /\ \E text \in Arguments :
          call' = [op |-> "normalize_text", text |-> text,
                   result |-> NormalizeArgument(text),
                   again  |-> NormalizeArgument([str |-> NormalizeArgument(text)])]
    /\ UNCHANGED <<corpus, now, stats_cache, stats_cache_time, lastScan, app, auth, threads>>

\* a second name made from a name: itself, or with a character around it
Variants(name) ==
    IF name = None THEN {None}
    ELSE {name, [str |-> <<" ">> \o name.str], [str |-> name.str \o <<"@">>],
          [str |-> <<"b">> \o name.str]}

\* generate_username called on two names
CallGenerateUsername ==
    /\ call.op = "none"
    /\ \E name \in Arguments :
          \E other \in Variants(name) :
             call' = [op |-> "generate_username", names |-> <<name, other>>,
                      normalized |-> <<NormalizeArgument(name), NormalizeArgument(other)>>,
                      usernames  |-> <<GenerateUsername(name), GenerateUsername(other)>>]
    /\ UNCHANGED <<corpus, now, stats_cache, stats_cache_time, lastScan, app, auth, threads>>

InitText ==
    /\ corpus = <<>>
    /\ now = 0
    /\ stats_cache = None
    /\ stats_cache_time = 0
    /\ call = NoCall
    /\ lastScan = None
    /\ auth = EmptyDatabase
    /\ threads = NoThreads
    /\ app = NoApp

NextText == CallNormalizeText \/ CallGenerateUsername \/ Return

SpecText == InitText /\ [][NextText]_vars

\* ── Claims on normalize_text and generate_username ─────────────────────
IsNormalizeCall == call.op = "normalize_text"

IsUsernameCall == call.op = "generate_username"

\* C17 as stated: normalize_text is idempotent on every input, the
\* compatibility characters included.
C17_Idempotent == IsNormalizeCall => call.again = call.result

LowerAlnum == LowerLetters \cup DOMAIN DigitVal

\* C18 as stated: the output holds only lower-case alphanumeric
\* characters and single spaces, none at either end (the underscore and
\* every other symbol have become spaces), and it is empty for an empty,
\* whitespace-only or non-string input.
C18_OutputAlphabet ==
    IsNormalizeCall =>
        LET out == call.result
        IN  /\ \A i \in 1..Len(out) : out[i] \in LowerAlnum \cup {" "}
            /\ out # <<>> => out[1] # " " /\ out[Len(out)] # " "
            /\ \A i \in 1..(Len(out) - 1) : ~(out[i] = " " /\ out[i + 1] = " ")
            /\ (call.text = None \/ \A i \in 1..Len(call.text.str) : IsSpace(call.text.str[i]))
                  => out = <<>>

\* C19: generate_username(name) is normalize_text(name) with each space
\* replaced by "."; it holds no space, no "." at either end and no two
\* "." in a row, and names with the same normalize_text value get the
\* same username.
C19_Username ==
    IsUsernameCall =>
        /\ \A k \in 1..2 :
              LET u == call.usernames[k]
                  n == call.normalized[k]
              IN  /\ Len(u) = Len(n)
                  /\ \A i \in 1..Len(u) : u[i] = IF n[i] = " " THEN "." ELSE n[i]
                  /\ \A i \in 1..Len(u) : u[i] # " "
                  /\ u # <<>> => u[1] # "." /\ u[Len(u)] # "."
                  /\ \A i \in 1..(Len(u) - 1) : ~(u[i] = "." /\ u[i + 1] = ".")
        /\ call.normalized[1] = call.normalized[2] => call.usernames[1] = call.usernames[2]

\* C19 witness: two different names with the same normalization, which
\* has a space inside, and one username with a "." in its place.
C19_Witness ==
    /\ IsUsernameCall
    /\ call.names[1] # call.names[2]
    /\ call.normalized[1] = call.normalized[2]
    /\ \E i \in 1..Len(call.normalized[1]) : call.normalized[1][i] = " "
    /\ call.usernames[1] = call.usernames[2]
    /\ \E i \in 1..Len(call.usernames[1]) : call.usernames[1][i] = "."

\* ── Registration (src/src/auth/auth.py, src/app.py) ────────────────────
MaxUsers == 3

AsciiUpper == DOMAIN UpperCase \ {"I_ACUTE", "N_TILDE"}

AsciiLower == {UpperCase[c] : c \in AsciiUpper}

\* AuthSystem.validate_password
ValidatePassword(password) ==
    /\ Len(password) >= 8
    /\ \E i \in 1..Len(password) : password[i] \in AsciiUpper
    /\ \E i \in 1..Len(password) : password[i] \in AsciiLower
    /\ \E i \in 1..Len(password) : IsDigit(password[i])

\* the whole of t matches [a-zA-Z0-9._%+-]+@[a-zA-Z0-9.-]+\.[a-zA-Z]{2,}
MatchesEmailPattern(t) ==
    LET letters == AsciiUpper \cup AsciiLower
        local   == letters \cup DOMAIN DigitVal \cup {".", "_", "%", "+", "-"}
        domain  == letters \cup DOMAIN DigitVal \cup {".", "-"}
    IN  \E a \in 2..Len(t) : \E d \in (a + 2)..(Len(t) - 2) :
            /\ t[a] = "@"
            /\ \A i \in 1..(a - 1) : t[i] \in local
            /\ \A i \in (a + 1)..(d - 1) : t[i] \in domain
            /\ t[d] = "."
            /\ \A i \in (d + 1)..Len(t) : t[i] \in letters

\* AuthSystem.validate_email: re.match with ^...$, where $ also matches
\* before a newline that ends the text
ValidateEmail(email) ==
    \/ MatchesEmailPattern(email)
    \/ /\ email # <<>>
       /\ email[Len(email)] = "NEWLINE"
       /\ MatchesEmailPattern(SubSeq(email, 1, Len(email) - 1))

\* _hash_password and _verify_password: a hash verifies the password it
\* was made from and no other
HashPassword(password) == [bcrypt |-> password]

\* Mutant of UniqueViolation: only the username is unique.
UniqueViolation_UsernameOnly(users, username, email) ==
    \E i \in 1..Len(users) : users[i].username = username

\* the UNIQUE constraints of the users table on username and on email,
\* which make the INSERT of session.commit() fail
UniqueViolation(users, username, email) ==
    \E i \in 1..Len(users) : users[i].username = username \/ users[i].email = email

\* the row of a new user; SQLite gives the next rowid
NewUser(users, username, email, password) ==
    [id |-> Len(users) + 1, username |-> username, email |-> email,
     password_hash |-> HashPassword(password), last_login |-> None]

\* StudentProfile(user_id=user.id): every other column NULL
EmptyProfile(user_id) ==
    [user_id |-> user_id, full_name |-> None, degree |-> None, year |-> None,
     interests |-> None, skills |-> None, preferred_areas |-> None]

\* AuthSystem.register: the database after the call and the dict returned
RegisterUser(db, username, email, password) ==
    IF UniqueViolation(db.users, username, email)
    THEN [db |-> db,
          result |-> [success |-> FALSE, message |-> "El username o email ya existe"]]
    ELSE LET user == NewUser(db.users, username, email, password)
         IN  [db |-> [users    |-> Append(db.users, user),
                      profiles |-> Append(db.profiles, EmptyProfile(user.id))],
              result |-> [success |-> TRUE, message |-> "Usuario registrado exitosamente",
                          user_id |-> user.id, username |-> user.username]]

Usernames == {"ana", "Ana", "luis"}

E_ana_urjc == <<"a","n","a","@","u","r","j","c",".","e","s">>
E_ana2_urjc == <<"a","n","a","2","@","u","r","j","c",".","e","s">>
E_luis_urjc == <<"l","u","i","s","@","u","r","j","c",".","e","s">>
E_invalid == <<"a","n","a","@","u","r","j","c">>

Emails == {E_ana_urjc, E_ana2_urjc, E_luis_urjc, E_invalid}

P_TestPass1 == <<"T","e","s","t","P","a","s","s","1">>
P_testpass1 == <<"t","e","s","t","p","a","s","s","1">>

Passwords == {P_TestPass1, P_testpass1}

\* POST /api/auth/register, one whole request
Register ==
    /\ call.op = "none"
    /\ Len(auth.users) < MaxUsers
    /\ \E username \in Usernames, email \in Emails, password \in Passwords :
          LET observed(response) ==
                 [op |-> "register", username |-> username, email |-> email,
                  password |-> password, before |-> auth, response |-> response]
          IN  IF ~ValidatePassword(password)
              THEN /\ call' = observed(Respond(400, [success |-> FALSE,
                                 detail |-> "La contrasena debe contener al menos una mayuscula"]))
                   /\ auth' = auth
              ELSE IF ~ValidateEmail(email)
              THEN /\ call' = observed(Respond(400, [success |-> FALSE,
                                                     detail |-> "Email invalido"]))
                   /\ auth' = auth
              ELSE LET done == RegisterUser(auth, username, email, password)
                   IN  /\ auth' = done.db
                       /\ call' = observed(
                             IF done.result.success
                             THEN Respond(200, [success |-> TRUE,
                                                user_id |-> done.result.user_id,
                                                username |-> done.result.username])
                             ELSE Respond(400, [success |-> FALSE,
                                                detail |-> done.result.message]))
    /\ UNCHANGED <<corpus, now, stats_cache, stats_cache_time, lastScan, app, threads>>

InitAuth ==
    /\ corpus = <<>>
    /\ now = 0
    /\ stats_cache = None
    /\ stats_cache_time = 0
    /\ call = NoCall
    /\ lastScan = None
    /\ app = NoApp
    /\ auth = EmptyDatabase
    /\ threads = NoThreads

NextAuth == Register \/ Return

SpecAuth == InitAuth /\ [][NextAuth]_vars

\* ── Claims on the accounts ─────────────────────────────────────────────
IsRegisterCall == call.op = "register"

\* C20: no two stored users share a username or an email and every user
\* has one profile; a registration whose username or email is already
\* registered is answered 400 with success false and leaves the users
\* and the profiles as they were.
C20_UniqueUsers ==
    /\ \A i, j \in 1..Len(auth.users) :
          i # j => /\ auth.users[i].username # auth.users[j].username
                   /\ auth.users[i].email # auth.users[j].email
                   /\ auth.users[i].id # auth.users[j].id
    /\ \A i \in 1..Len(auth.users) :
          Cardinality({k \in 1..Len(auth.profiles) :
                          auth.profiles[k].user_id = auth.users[i].id}) = 1
    /\ (IsRegisterCall /\ \E i \in 1..Len(call.before.users) :
                             call.before.users[i].username = call.username)
          => (call.response.status = 400 /\ ~call.response.body.success /\ auth = call.before)
    /\ (IsRegisterCall /\ \E i \in 1..Len(call.before.users) :
                             call.before.users[i].email = call.email)
          => (call.response.status = 400 /\ ~call.response.body.success /\ auth = call.before)

\* C20 witness: a valid registration refused because its email belongs to
\* a user with another username; the database is as before.
C20_Witness ==
    /\ IsRegisterCall
    /\ ValidatePassword(call.password)
    /\ ValidateEmail(call.email)
    /\ Len(call.before.users) = 2
    /\ \A i \in 1..2 : call.before.users[i].username # call.username
    /\ \E i \in 1..2 : call.before.users[i].email = call.email
    /\ call.response.status = 400
    /\ auth = call.before

\* ── Login and profiles (src/src/auth/auth.py, src/app.py) ──────────────
\* Mutant of VerifyPassword: every password verifies.
VerifyPassword_Any(password, hashed_password) == TRUE

\* _verify_password: bcrypt.checkpw of a password against a stored hash
\* (the passwords here are well under bcrypt's 72 bytes)
VerifyPassword(password, hashed_password) == hashed_password = HashPassword(password)

\* `select(User).where(User.username == username)` and .first(): the rows
\* found, at most one under the UNIQUE constraint
UsersNamed(users, username) ==
    SelectIdx(users, {i \in 1..Len(users) : users[i].username = username})

\* create_access_token: the claims the token carries
AccessToken(user) == [user_id |-> user.id, username |-> user.username]

\* AuthSystem.login: the database after the call and the dict returned
LoginUser(db, username, password, at) ==
    LET found == UsersNamed(db.users, username)
    IN  IF found # <<>> /\ VerifyPassword(password, found[1].password_hash)
        THEN LET user == [found[1] EXCEPT !.last_login = [at |-> at]]
             IN  [db |-> [db EXCEPT !.users =
                             [i \in 1..Len(db.users) |->
                                 IF db.users[i].id = user.id THEN user ELSE db.users[i]]],
                  result |-> [success |-> TRUE, message |-> "Login exitoso",
                              token |-> AccessToken(user),
                              user |-> [id |-> user.id, username |-> user.username,
                                        email |-> user.email]]]
        ELSE [db |-> db,
              result |-> [success |-> FALSE,
                          message |-> "Usuario o contrasena incorrectos"]]

\* POST /api/auth/login, one whole request
Login ==
    /\ call.op = "none"
    /\ \E username \in Usernames, password \in Passwords :
          LET done == LoginUser(auth, username, password, now)
          IN  /\ auth' = done.db
              /\ call' = [op |-> "login", username |-> username,
                          password |-> password, before |-> auth,
                          response |->
                             IF done.result.success
                             THEN Respond(200, [success |-> TRUE,
                                                token |-> done.result.token,
                                                user |-> done.result.user])
                             ELSE Respond(401, [success |-> FALSE,
                                                detail |-> done.result.message])]
    /\ UNCHANGED <<corpus, now, stats_cache, stats_cache_time, lastScan, app, threads>>

ALLOWED_PROFILE_FIELDS ==
    {"full_name", "degree", "year", "interests", "skills", "preferred_areas"}

\* AuthSystem.get_profile: the dict of the user's row and profile, or None
ProfileDict(db, user_id) ==
    LET users == SelectIdx(db.users, {i \in 1..Len(db.users) : db.users[i].id = user_id})
        rows  == SelectIdx(db.profiles, {i \in 1..Len(db.profiles) :
                                            db.profiles[i].user_id = user_id})
        Field(f) == IF rows # <<>> THEN rows[1][f] ELSE None
    IN  IF users = <<>> THEN None
        ELSE [username |-> users[1].username, email |-> users[1].email,
              last_login |-> users[1].last_login,
              full_name |-> Field("full_name"), degree |-> Field("degree"),
              year |-> Field("year"), interests |-> Field("interests"),
              skills |-> Field("skills"), preferred_areas |-> Field("preferred_areas")]

\* Mutant of SetFields: the fields not supplied are reset.
SetFields_Replace(profile, profile_data) ==
    [f \in DOMAIN profile |->
        IF f \in DOMAIN profile_data THEN profile_data[f]
        ELSE IF f = "user_id" THEN profile[f] ELSE None]

\* the loop of update_profile: setattr for every supplied allowed key
SetFields(profile, profile_data) ==
    [f \in DOMAIN profile |->
        IF f \in DOMAIN profile_data /\ f \in ALLOWED_PROFILE_FIELDS
        THEN profile_data[f] ELSE profile[f]]

\* AuthSystem.update_profile: the database after the call and the dict returned
UpdateProfileOf(db, user_id, profile_data) ==
    IF \A i \in 1..Len(db.profiles) : db.profiles[i].user_id # user_id
    THEN [db |-> db, result |-> [success |-> FALSE, message |-> "Perfil no encontrado"]]
    ELSE [db |-> [db EXCEPT !.profiles =
                     [i \in 1..Len(db.profiles) |->
                         IF db.profiles[i].user_id = user_id
                         THEN SetFields(db.profiles[i], profile_data)
                         ELSE db.profiles[i]]],
          result |-> [success |-> TRUE, message |-> "Perfil actualizado exitosamente"]]

\* the ids requested: those of the users there can be, and one beyond
UserIds == 1..(MaxUsers + 1)

\* ProfileUpdate bodies as model_dump(exclude_unset=True) gives them; a
\* column holds None, a str or an int
ProfileUpdates ==
    { [f \in {} |-> None],
      [full_name |-> [str |-> "Test User"], year |-> [int |-> 4]],
      [full_name |-> None] }

\* GET /api/profile/{user_id}, one whole request
GetProfile ==
    /\ call.op = "none"
    /\ \E user_id \in UserIds :
          LET profile == ProfileDict(auth, user_id)
          IN  call' = [op |-> "get_profile", user_id |-> user_id, before |-> auth,
                       response |-> IF profile # None THEN Respond(200, profile)
                                    ELSE Respond(404, [detail |-> "Perfil no encontrado"])]
    /\ UNCHANGED <<corpus, now, stats_cache, stats_cache_time, lastScan, app, auth, threads>>

\* PUT /api/profile/{user_id}, one whole request
UpdateProfile ==
    /\ call.op = "none"
    /\ \E user_id \in UserIds, profile_data \in ProfileUpdates :
          LET done == UpdateProfileOf(auth, user_id, profile_data)
          IN  /\ auth' = done.db
              /\ call' = [op |-> "update_profile", user_id |-> user_id,
                          data |-> profile_data, before |-> auth,
                          response |->
                             IF done.result.success
                             THEN Respond(200, [success |-> TRUE,
                                                message |-> done.result.message])
                             ELSE Respond(400, [success |-> FALSE,
                                                detail |-> done.result.message])]
    /\ UNCHANGED <<corpus, now, stats_cache, stats_cache_time, lastScan, app, threads>>

NextLogin == Register \/ Login \/ Return

SpecLogin == InitAuth /\ [][NextLogin]_vars

NextProfiles == Register \/ GetProfile \/ UpdateProfile \/ Return

SpecProfiles == InitAuth /\ [][NextProfiles]_vars

\* ── Claims on login and profiles ───────────────────────────────────────
IsLoginCall == call.op = "login"

\* the users registered before the call under the username and password
\* of the call
RegisteredWith(users, username, password) ==
    {i \in 1..Len(users) : /\ users[i].username = username
                           /\ users[i].password_hash = HashPassword(password)}

\* C21: a login is answered 200 exactly when a user was registered with
\* that username and exactly that password, and then carries a token and
\* the identity of that user; any other login is answered 401 without a
\* token and leaves the database, last_login included, as it was.
C21_LoginIffRegistered ==
    IsLoginCall =>
        LET match == RegisteredWith(call.before.users, call.username, call.password)
        IN  /\ (call.response.status = 200) <=> (match # {})
            /\ call.response.status = 200 =>
                  \A i \in match :
                     /\ call.response.body.user.id = call.before.users[i].id
                     /\ call.response.body.user.username = call.username
                     /\ call.response.body.user.email = call.before.users[i].email
                     /\ call.response.body.token.user_id = call.before.users[i].id
            /\ call.response.status # 200 =>
                  /\ call.response.status = 401
                  /\ "token" \notin DOMAIN call.response.body
                  /\ auth = call.before

\* C21 witness: a user who has logged in before tries a wrong password:
\* 401, no token, last_login as it was.
C21_Witness ==
    /\ IsLoginCall
    /\ \E i \in 1..Len(call.before.users) :
          /\ call.before.users[i].username = call.username
          /\ call.before.users[i].last_login # None
          /\ call.before.users[i].password_hash # HashPassword(call.password)
    /\ call.response.status = 401
    /\ auth = call.before

IsGetProfileCall == call.op = "get_profile"

IsUpdateProfileCall == call.op = "update_profile"

RegisteredIds(db) == {db.users[i].id : i \in 1..Len(db.users)}

\* C22: every registered user has a profile, which get_profile returns
\* with the username and, right after the registration, every optional
\* field empty; a successful update_profile sets every supplied field
\* and leaves every other field, the usernames and the emails as they
\* were; on an id never registered get_profile answers 404 and
\* update_profile fails, and neither creates anything.
C22_Profiles ==
    /\ \A id \in RegisteredIds(auth) :
          /\ ProfileDict(auth, id) # None
          /\ \E k \in 1..Len(auth.profiles) : auth.profiles[k].user_id = id
    /\ (IsRegisterCall /\ call.response.status = 200) =>
          LET p == ProfileDict(auth, call.response.body.user_id)
          IN  /\ p # None
              /\ p.username = call.username
              /\ \A f \in ALLOWED_PROFILE_FIELDS : p[f] = None
    /\ IsGetProfileCall =>
          /\ auth = call.before
          /\ call.user_id \in RegisteredIds(call.before)
                => /\ call.response.status = 200
                   /\ \E i \in 1..Len(auth.users) :
                         /\ auth.users[i].id = call.user_id
                         /\ call.response.body.username = auth.users[i].username
          /\ call.user_id \notin RegisteredIds(call.before)
                => call.response.status = 404
    /\ IsUpdateProfileCall =>
          /\ auth.users = call.before.users
          /\ Len(auth.profiles) = Len(call.before.profiles)
          /\ call.user_id \notin RegisteredIds(call.before)
                => /\ call.response.status = 400
                   /\ ~call.response.body.success
                   /\ auth = call.before
          /\ call.user_id \in RegisteredIds(call.before)
                => /\ call.response.status = 200
                   /\ \A f \in ALLOWED_PROFILE_FIELDS :
                         ProfileDict(auth, call.user_id)[f] =
                            IF f \in DOMAIN call.data THEN call.data[f]
                            ELSE ProfileDict(call.before, call.user_id)[f]
                   /\ \A id \in RegisteredIds(auth) \ {call.user_id} :
                         ProfileDict(auth, id) = ProfileDict(call.before, id)

\* C22 witness: an update that supplies full_name only, on a profile
\* whose year was set before: the name is replaced and the year stays.
C22_Witness ==
    /\ IsUpdateProfileCall
    /\ call.response.status = 200
    /\ DOMAIN call.data = {"full_name"}
    /\ ProfileDict(call.before, call.user_id).full_name = [str |-> "Test User"]
    /\ ProfileDict(call.before, call.user_id).year = [int |-> 4]
    /\ ProfileDict(auth, call.user_id).full_name = None
    /\ ProfileDict(auth, call.user_id).year = [int |-> 4]

\* ── The engine as a whole ──────────────────────────────────────────────
\* The professor names of the pools in the order of Python's string
\* comparison (code points: "A" < "L" < "a")
NameOrder == <<"Ana Gomez", "Luis Perez", "ana gomez">>

\* `sorted(names)` for a set of professor names
SortedNames(names) == SelectSeq(NameOrder, LAMBDA n : n \in names)

\* the set get_all_professor_names fills: every truthy profesor
ProfessorNames(all_data) ==
    {GetText(all_data[i].metadata, "profesor") : i \in 1..Len(all_data)} \ {""}

\* Mutant of StoreAfterRead: reading the collection empties it.
StoreAfterRead_Drained(c) == <<>>

\* collection.get only reads: the collection after the call is the
\* collection before it
StoreAfterRead(c) == c

\* SearchEngine.get_all_professor_names, one whole call
GetAllProfessorNames ==
    /\ call.op = "none"
    /\ call' = [op |-> "get_all_professor_names", corpus |-> corpus,
                result |-> SortedNames(ProfessorNames(StoreGetAll(corpus)))]
    /\ corpus' = StoreAfterRead(corpus)
    /\ UNCHANGED <<now, stats_cache, stats_cache_time, lastScan, app, auth, threads>>

\* The records of the collections every operation is run on: one whose
\* fields are all well formed (1), one whose date and impact factor are
\* not parseable (3), one that lacks the date and impact-factor keys (6)
\* and one whose profesor and impact factor are empty (8).
EnginePool == {r \in ListingPool : r.id \in {1, 3, 6, 8}}

\* a record some operation cannot read a date or an impact factor from
Malformed(rec) ==
    \/ ~Parseable(GetChars(rec.metadata, "fecha"))
    \/ ~IntOf(Prefix(GetChars(rec.metadata, "fecha"), 4)).ok
    \/ ~ParseFloat(GetChars(rec.metadata, "if_sjr")).ok

InitEngine ==
    /\ corpus \in {c \in ListingCorpora :
                      /\ Range(c) \subseteq EnginePool
                      /\ \A i, j \in 1..Len(c) : i < j => c[i].id < c[j].id
                      /\ Len(c) >= 2
                      /\ \E i \in 1..Len(c) :
                            /\ GetChars(c[i].metadata, "fecha") # <<>>
                            /\ GetChars(c[i].metadata, "if_sjr") # <<>>
                            /\ Malformed(c[i])}
    /\ now = 0
    /\ stats_cache = None
    /\ stats_cache_time = 0
    /\ call = NoCall
    /\ lastScan = None
    /\ auth = EmptyDatabase
    /\ threads = NoThreads
    /\ app = NoApp

NextEngine ==
    \/ Search
    \/ GetAllProfesores
    \/ GetProfesorProfile
    \/ GetProfessorDocuments
    \/ GetAllProfessorNames
    \/ GetAvailabilityRanking
    \/ GetDatabaseStats
    \/ ScoreResults
    \/ Return

SpecEngine == InitEngine /\ [][NextEngine]_vars

\* ── Claims on malformed records ────────────────────────────────────────
\* the sum of a sequence of numbers
RECURSIVE SumOf(_)
SumOf(ns) == IF ns = <<>> THEN 0 ELSE Head(ns) + SumOf(Tail(ns))

\* the corpus a call ran on holds a malformed record and another record
HasMalformedAndOther(c) ==
    \E i, j \in 1..Len(c) : i # j /\ Malformed(c[i])

\* the records of the corpus that carry a professor
Attributed(c) == {i \in 1..Len(c) : GetText(c[i].metadata, "profesor") # ""}

\* a candidate whose own fields are well formed and meet the post-filters
WellFormedPassing(rec, filters) ==
    /\ ~Malformed(rec)
    /\ "fecha_range" \in DOMAIN filters =>
          /\ "inicio" \in DOMAIN filters.fecha_range
                => ~StrLess(rec.metadata.fecha, filters.fecha_range.inicio)
          /\ "fin" \in DOMAIN filters.fecha_range
                => ~StrLess(filters.fecha_range.fin, rec.metadata.fecha)
    /\ "min_if_sjr" \in DOMAIN filters /\ rec.metadata.if_sjr # <<>>
          => ParseFloat(rec.metadata.if_sjr).val >= filters.min_if_sjr

\* C23: a malformed record never fails an operation.  On every corpus that
\* holds a record with a missing, empty or unparseable date or impact
\* factor, each engine operation returns its ordinary result and that
\* result accounts for every other record: the statistics count every
\* record, the listing and the ranking count every record that carries a
\* professor, the profile and the documents hold every record of the name,
\* search returns every well-formed candidate that meets the filters, and
\* the compatibility score of a result with an unparseable impact factor
\* is a number.
C23_MalformedAbsorbed ==
    /\ call.op = "get_database_stats" /\ call.corpus # <<>> =>
          /\ call.result.total_documents = Len(call.corpus)
          /\ SumOf([i \in 1..Len(call.result.tipos_produccion) |->
                       call.result.tipos_produccion[i].n]) = Len(call.corpus)
          /\ SumOf([i \in 1..Len(call.result.categorias_populares) |->
                       call.result.categorias_populares[i].n]) = Len(call.corpus)
    /\ call.op = "get_all_profesores" =>
          SumOf([i \in 1..Len(call.result.profesores) |->
                    call.result.profesores[i].total_works])
            = Cardinality(Attributed(call.corpus))
    /\ call.op = "get_availability_ranking" =>
          /\ SumOf([i \in 1..Len(call.result) |-> call.result[i].total_publications])
               = Cardinality(Attributed(call.corpus))
          /\ \A i \in 1..Len(call.result) :
                call.result[i].availability_score \in 30..100
    /\ call.op = "get_all_professor_names" =>
          Range(call.result)
            = {call.corpus[i].metadata.profesor : i \in Attributed(call.corpus)}
    /\ call.op = "get_profesor_profile" =>
          IF RecordsOf(call.corpus, call.name) = {}
          THEN call.result = None
          ELSE /\ call.result # None
               /\ {call.result.works[i].id : i \in 1..Len(call.result.works)}
                    = {r.id : r \in RecordsOf(call.corpus, call.name)}
    /\ call.op = "get_professor_documents" =>
          /\ Len(call.result)
               = Min(call.limit, Cardinality(RecordsOf(call.corpus, call.name)))
          /\ Range(call.result)
               \subseteq {r.document : r \in RecordsOf(call.corpus, call.name)}
    /\ call.op = "search" =>
          /\ call.total_results = Len(call.results)
          /\ \A i \in 1..Len(call.returned) :
                (~HasFilters(call.filters)
                   \/ WellFormedPassing(call.returned[i].rec, call.filters))
                => \E j \in 1..Len(call.results) :
                      call.results[j].id = call.returned[i].rec.id
    /\ call.op = "calculate_compatibility_score" =>
          \A i \in 1..Len(call.scores) : call.scores[i] \in Int

\* a search with an impact-factor filter met a record whose impact factor
\* is not a number and still returned the well-formed record
C23_Witness ==
    /\ call.op = "search"
    /\ HasFilters(call.filters)
    /\ "min_if_sjr" \in DOMAIN call.filters
    /\ HasMalformedAndOther(corpus)
    /\ \E i, j \in 1..Len(call.returned) :
          /\ ~ParseFloat(GetChars(call.returned[i].rec.metadata, "if_sjr")).ok
          /\ ~Malformed(call.returned[j].rec)
          /\ \E k \in 1..Len(call.results) :
                call.results[k].id = call.returned[j].rec.id

\* ── Claims on what the engine writes ───────────────────────────────────
EngineOperations ==
    {"search", "get_all_profesores", "get_profesor_profile",
     "get_professor_documents", "get_all_professor_names",
     "get_availability_ranking", "get_database_stats"}

\* C26: no engine operation changes the corpus, and the statistics cache
\* slot (value and timestamp) is written by get_database_stats only: in
\* every step the collection is what it was, and a step that changes the
\* slot is a get_database_stats call that scanned.
C26_Frame ==
    [][/\ corpus' = corpus
       /\ (stats_cache' # stats_cache \/ stats_cache_time' # stats_cache_time)
             => (call'.op = "get_database_stats" /\ call'.scanned)
       /\ (call' # call /\ call'.op \in EngineOperations
              /\ call'.op # "get_database_stats")
             => (stats_cache' = stats_cache /\ stats_cache_time' = stats_cache_time)
      ]_vars

\* the names were listed after the statistics had been cached, and corpus
\* and cache are what they were
C26_Witness ==
    /\ call.op = "get_all_professor_names"
    /\ call.result # <<>>
    /\ call.corpus = corpus
    /\ stats_cache # None
    /\ stats_cache = lastScan.result

\* ── Claims on the professor counts ─────────────────────────────────────
\* the distinct non-empty professor strings of a corpus
DistinctProfessors(c) ==
    {GetText(c[i].metadata, "profesor") : i \in 1..Len(c)} \ {""}

\* C29: on an unchanged corpus and a cold statistics cache the three
\* professor counts agree: total_profesores of get_database_stats,
\* total_profesores of get_all_profesores and the length of
\* get_all_professor_names are each the number of distinct non-empty
\* professor strings, and the total_works of get_all_profesores sum to
\* total_documents minus the number of records with an empty professor.
C29_ProfessorCounts ==
    /\ (call.op = "get_database_stats" /\ call.scanned) =>
          /\ call.result.total_profesores = Cardinality(DistinctProfessors(call.corpus))
          /\ call.result.total_documents = Len(call.corpus)
    /\ call.op = "get_all_profesores" =>
          /\ call.result.total_profesores = Cardinality(DistinctProfessors(call.corpus))
          /\ call.result.total_profesores = ScanStats(StoreGetAll(corpus)).total_profesores
          /\ SumOf([i \in 1..Len(call.result.profesores) |->
                       call.result.profesores[i].total_works])
               = ScanStats(StoreGetAll(corpus)).total_documents
                   - Cardinality({i \in 1..Len(corpus) :
                                     GetText(corpus[i].metadata, "profesor") = ""})
    /\ call.op = "get_all_professor_names" =>
          /\ Len(call.result) = Cardinality(DistinctProfessors(call.corpus))
          /\ Len(call.result) = ScanStats(StoreGetAll(corpus)).total_profesores
          /\ Len(call.result) = AllProfesores(StoreGetAll(corpus)).total_profesores

\* the professors were listed on a corpus of three records, one of them
\* without a professor, after the statistics had counted the same two
C29_Witness ==
    /\ call.op = "get_all_profesores"
    /\ Len(call.corpus) = 3
    /\ \E i \in 1..3 : GetText(call.corpus[i].metadata, "profesor") = ""
    /\ call.result.total_profesores = 2
    /\ stats_cache # None
    /\ stats_cache.total_profesores = 2

\* ── Claims on the profile totals ───────────────────────────────────────
\* the ids of the works in a list
WorkIds(ws) == {ws[i].id : i \in 1..Len(ws)}

\* C30: in every profile get_profesor_profile returns, total_trabajos is
\* the number of corpus records whose professor equals the requested name
\* exactly, the works list has that many entries, every work is in exactly
\* one of the buckets docencia, proyectos and investigacion, and the sizes
\* of the three buckets and the counts of the production-type histogram
\* each sum to total_trabajos.
C30_ProfileTotals ==
    IsProfileCall =>
        LET est  == call.result.estadisticas
            own  == RecordsOf(call.corpus, call.name)
            total == est.total_trabajos
        IN  /\ total = Cardinality(own)
            /\ Len(call.result.works) = total
            /\ WorkIds(call.result.works) = {r.id : r \in own}
            /\ \A w \in WorkIds(call.result.works) :
                  Cardinality({b \in {"docencia", "proyectos", "investigacion"} :
                                  w \in WorkIds(est[b])}) = 1
            /\ Len(est.docencia) + Len(est.proyectos) + Len(est.investigacion) = total
            /\ SumOf([i \in 1..Len(est.tipos_produccion) |->
                         est.tipos_produccion[i].n]) = total

\* a profile of three works, one in each bucket
C30_Witness ==
    /\ IsProfileCall
    /\ call.result.estadisticas.total_trabajos = 3
    /\ Len(call.result.estadisticas.docencia) = 1
    /\ Len(call.result.estadisticas.proyectos) = 1
    /\ Len(call.result.estadisticas.investigacion) = 1

\* ── Search by date range ───────────────────────────────────────────────
\* The records searched by date: one dated after the range of FilterSets
\* (1), one dated inside it (2) and one whose FECHA cell was blank, which
\* _process_dataframe stores as the empty string.
DatePool ==
    {r \in RecordPool : r.id \in {1, 2}} \cup
    { [id |-> 10, document |-> <<"doc", 10>>,
       metadata |-> [profesor |-> "Ana Gomez", tipo_produccion |-> T_articulo,
                     fecha |-> F_empty, if_sjr |-> IF_empty,
                     categorias |-> "redes"]] }

InitDates ==
    /\ corpus \in UNION { {c \in [1..n -> DatePool] :
                              \A i, j \in 1..n : i < j => c[i].id < c[j].id}
                          : n \in 0..MaxCorpus }
    /\ now = 0
    /\ stats_cache = None
    /\ stats_cache_time = 0
    /\ call = NoCall
    /\ lastScan = None
    /\ auth = EmptyDatabase
    /\ threads = NoThreads
    /\ app = NoApp

SpecDates == InitDates /\ [][NextSearch]_vars

\* C27: a search with a fecha_range filter returns only results whose raw
\* date d satisfies inicio <= d (when inicio is given) and d <= fin (when
\* fin is given) in lexicographic order; the results are taken from the
\* candidates the store returned, and total_results is their number (0
\* with an empty list when none survives).
C27_DateRange ==
    (IsSearchCall /\ HasFilters(call.filters) /\ "fecha_range" \in DOMAIN call.filters) =>
        /\ \A i \in 1..Len(call.results) :
              /\ "inicio" \in DOMAIN call.filters.fecha_range
                    => ~StrLess(call.results[i].fecha, call.filters.fecha_range.inicio)
              /\ "fin" \in DOMAIN call.filters.fecha_range
                    => ~StrLess(call.filters.fecha_range.fin, call.results[i].fecha)
        /\ {call.results[i].id : i \in 1..Len(call.results)}
              \subseteq {call.returned[i].rec.id : i \in 1..Len(call.returned)}
        /\ call.total_results = Len(call.results)

\* the part of C27 on the raw dates that are not empty
C27_DatedResultsInRange ==
    (IsSearchCall /\ HasFilters(call.filters) /\ "fecha_range" \in DOMAIN call.filters) =>
        /\ \A i \in 1..Len(call.results) :
              call.results[i].fecha # <<>> =>
                /\ "inicio" \in DOMAIN call.filters.fecha_range
                      => ~StrLess(call.results[i].fecha, call.filters.fecha_range.inicio)
                /\ "fin" \in DOMAIN call.filters.fecha_range
                      => ~StrLess(call.filters.fecha_range.fin, call.results[i].fecha)
        /\ call.total_results = Len(call.results)

\* ── Ingestion (src/src/data/data_processor_pandas.py) ──────────────────
\* The columns of a dataframe after load_all_csvs upper-cased them; an
\* accented capital is written as the letter followed by an apostrophe.
\* campo_map: the standard column, the alternative one and the label.
campo_map ==
    << [col1 |-> "TI'TULO", col2 |-> "TITULO",
        display |-> <<"T","i_acute","t","u","l","o">>],
       [col1 |-> "AUTORES", col2 |-> "",
        display |-> <<"A","u","t","o","r","e","s">>],
       [col1 |-> "TIPO", col2 |-> "",
        display |-> <<"T","i","p","o">>],
       [col1 |-> "TIPO DE PRODUCCIO'N", col2 |-> "TIPO_PRODUCCION",
        display |-> <<"T","i","p","o"," ","d","e"," ","p","r","o","d","u","c","c","i","o_acute","n">>],
       [col1 |-> "CATEGORI'AS", col2 |-> "CATEGORIAS",
        display |-> <<"C","a","t","e","g","o","r","i_acute","a","s">>],
       [col1 |-> "FUENTE", col2 |-> "",
        display |-> <<"F","u","e","n","t","e">>],
       [col1 |-> "IF SJR", col2 |-> "IF_SJR",
        display |-> <<"I","m","p","a","c","t","o"," ","S","J","R">>],
       [col1 |-> "Q SJR", col2 |-> "Q_SJR",
        display |-> <<"C","u","a","r","t","i","l"," ","S","J","R">>] >>

\* _get(row, *keys): the stripped text of the first of the columns that
\* the dataframe has and whose cell is not blank, "" when there is none
RECURSIVE GetCell(_, _)
GetCell(row, keys) ==
    IF keys = <<>> THEN <<>>
    ELSE IF Head(keys) \in DOMAIN row /\ Strip(row[Head(keys)]) # <<>>
         THEN Strip(row[Head(keys)])
         ELSE GetCell(row, Tail(keys))

\* `_get(row, col1) or (_get(row, col2) if col2 else "")`
FieldValue(row, campo) ==
    IF GetCell(row, <<campo.col1>>) # <<>> THEN GetCell(row, <<campo.col1>>)
    ELSE IF campo.col2 # "" THEN GetCell(row, <<campo.col2>>) ELSE <<>>

\* partes: f"{display}: {val}" for every field of campo_map that has a value
RECURSIVE Partes(_, _)
Partes(row, campos) ==
    IF campos = <<>> THEN <<>>
    ELSE LET val == FieldValue(row, Head(campos))
         IN  (IF val # <<>> THEN <<Head(campos).display \o <<":", " ">> \o val>> ELSE <<>>)
             \o Partes(row, Tail(campos))

\* " ".join(partes)
RECURSIVE JoinSpace(_)
JoinSpace(parts) ==
    IF parts = <<>> THEN <<>>
    ELSE IF Len(parts) = 1 THEN parts[1]
    ELSE parts[1] \o <<" ">> \o JoinSpace(Tail(parts))

\* `semantic_text = normalize_text(" ".join(partes))`
SemanticText(row) == NormalizeText(JoinSpace(Partes(row, campo_map)))

\* Mutant of SkipRow: no row is skipped.
SkipRow_Never(semantic_text) == FALSE

\* `if not semantic_text: continue`
SkipRow(semantic_text) == semantic_text = <<>>

\* csv_path.stem.replace("_", " ").title() of the file read, ana_gomez.csv
nombre_profesor_default == <<"A","n","a"," ","G","o","m","e","z">>

\* the name of the row's professor: the PROFESOR cell when the column
\* exists and the cell is not blank, the file's name otherwise
NombreProfesor(row) ==
    IF GetCell(row, <<"PROFESOR">>) # <<>>
    THEN GetCell(row, <<"PROFESOR">>) ELSE nombre_profesor_default

\* the record of one row that is kept; uuid4 ids are distinct, the row
\* number stands for them
RowRecord(row, index) ==
    [id |-> index,
     document |-> SemanticText(row),
     metadata |->
        [profesor          |-> NombreProfesor(row),
         profesor_username |-> GenerateUsername([str |-> NombreProfesor(row)]),
         titulo            |-> NormalizeText(FieldValue(row, campo_map[1])),
         autores           |-> GetCell(row, <<"AUTORES">>),
         fecha             |-> GetCell(row, <<"FECHA">>),
         tipo              |-> GetCell(row, <<"TIPO">>),
         tipo_produccion   |-> NormalizeText(FieldValue(row, campo_map[4])),
         categorias        |-> NormalizeText(FieldValue(row, campo_map[5])),
         fuente            |-> GetCell(row, <<"FUENTE">>),
         if_sjr            |-> FieldValue(row, campo_map[7]),
         q_sjr             |-> FieldValue(row, campo_map[8]),
         row_number        |-> index]]

\* _process_dataframe: the records of the rows that are not skipped, in
\* row order
ProcessDataframe(df) ==
    LET kept == SelectIdx([i \in 1..Len(df) |-> i],
                          {i \in 1..Len(df) : ~SkipRow(SemanticText(df[i]))})
    IN  [k \in 1..Len(kept) |-> RowRecord(df[kept[k]], kept[k])]

\* the cells of the title column: blank, spaces, punctuation, a word
TitleCells == {<<>>, <<" ">>, <<"!">>, <<"R","e","d","e","s">>}

\* the rows of a file in the standard layout and of one in the demo layout
StandardRows ==
    {[c \in {"TI'TULO", "AUTORES", "FECHA", "IF SJR"} |->
         CASE c = "TI'TULO" -> t
           [] c = "AUTORES" -> <<>>
           [] c = "FECHA"   -> F_2021_06_01
           [] c = "IF SJR"  -> f]
     : t \in TitleCells, f \in {<<>>, IF_2_5}}

DemoRows ==
    {[c \in {"TITULO", "PROFESOR", "FECHA"} |->
         CASE c = "TITULO"   -> t
           [] c = "PROFESOR" -> p
           [] c = "FECHA"    -> F_2021_06_01]
     : t \in {<<>>, <<"R","e","d","e","s">>}, p \in {<<>>, <<"L","u","i","s">>}}

\* the dataframes read: at most MaxRows rows of one layout
MaxRows == 2

Dataframes ==
    UNION { [1..n -> StandardRows] \cup [1..n -> DemoRows] : n \in 0..MaxRows }

\* DataProcessor.load_data_to_chroma over one CSV file: nothing is done
\* when no row is kept; otherwise the collection is created anew and the
\* records are added
LoadDataToChroma ==
    /\ call.op = "none"
    /\ \E df \in Dataframes :
          LET records == ProcessDataframe(df)
          IN  /\ corpus' = IF records = <<>> THEN corpus ELSE records
              /\ call' = [op |-> "load_data_to_chroma", df |-> df,
                          result |-> IF records = <<>> THEN None
                                     ELSE [count |-> Len(records)]]
    /\ UNCHANGED <<now, stats_cache, stats_cache_time, lastScan, app, auth, threads>>

\* the collection is absent or holds what an earlier load of a one-row
\* file left in it
InitIngest ==
    /\ corpus \in {ProcessDataframe(df) : df \in {d \in Dataframes : Len(d) <= 1}}
    /\ now = 0
    /\ stats_cache = None
    /\ stats_cache_time = 0
    /\ call = NoCall
    /\ lastScan = None
    /\ auth = EmptyDatabase
    /\ threads = NoThreads
    /\ app = NoApp

NextIngest == LoadDataToChroma

SpecIngest == InitIngest /\ [][NextIngest]_vars

\* ── Claims on ingestion ────────────────────────────────────────────────
IsLoadCall == call.op = "load_data_to_chroma"

StoreFaults == {"ConnectionError", "InternalError"}

\* the operations that call the store once and keep no state
StatelessOperations ==
    {"search", "get_all_profesores", "get_profesor_profile",
     "get_professor_documents", "get_all_professor_names",
     "get_availability_ranking"}

\* Mutant of CacheAtFault: the slot is cleared before the store is called.
CacheAtFault_Cleared(cache, time) == [cache |-> None, time |-> 0]

\* The cache slot when collection.get raises inside get_database_stats:
\* the call precedes both pairs of assignments to the slot, so none ran.
CacheAtFault(cache, time) == [cache |-> cache, time |-> time]

\* Mutant of Raised: the exception is caught and the store is called again.
Raised_Retried(op, exc) ==
    [op |-> op, raised |-> None, store_calls |-> 2, at |-> now,
     before |-> [cache |-> stats_cache, time |-> stats_cache_time]]

\* The outcome of an operation whose store call raises exc: no try
\* statement encloses the call, so the operation ends there, after one
\* store call, with exc raised to its caller.
Raised(op, exc) ==
    [op |-> op, raised |-> [exception |-> exc], store_calls |-> 1, at |-> now,
     before |-> [cache |-> stats_cache, time |-> stats_cache_time]]

\* one of the stateless operations, its store call raising
StoreCallFails ==
    /\ call.op = "none"
    /\ \E op \in StatelessOperations, exc \in StoreFaults :
          call' = Raised(op, exc)
    /\ UNCHANGED <<corpus, now, stats_cache, stats_cache_time, lastScan, app, auth, threads>>

\* get_database_stats past an absent or expired cache, collection.get raising
GetDatabaseStatsFails ==
    /\ call.op = "none"
    /\ ~CacheHit(now)
    /\ \E exc \in StoreFaults :
          /\ call' = Raised("get_database_stats", exc)
          /\ stats_cache' = CacheAtFault(stats_cache, stats_cache_time).cache
          /\ stats_cache_time' = CacheAtFault(stats_cache, stats_cache_time).time
    /\ UNCHANGED <<corpus, now, lastScan, app, auth, threads>>

NextFaults ==
    \/ GetDatabaseStats
    \/ GetDatabaseStatsFails
    \/ StoreCallFails
    \/ Tick
    \/ AddRecord
    \/ ResetCollection
    \/ Return

SpecFaults == InitStats /\ [][NextFaults]_vars

\* ── Claims on store faults ─────────────────────────────────────────────
IsFaultCall == call.op # "none" /\ "raised" \in DOMAIN call

ThreadIds == {"t1", "t2"}

Idle == [pc |-> "idle"]

\* l.277: `now = time.time()`
EnterStats(t) ==
    /\ threads[t].pc = "idle"
    /\ threads' = [threads EXCEPT ![t] = [pc |-> "test_cache", now |-> now]]
    /\ UNCHANGED <<corpus, now, stats_cache, stats_cache_time, call, lastScan, app, auth>>

\* l.278, left operand of `and`: self._stats_cache is read and tested
TestCache(t) ==
    /\ threads[t].pc = "test_cache"
    /\ threads' = [threads EXCEPT ![t].pc =
                      IF Truthy(stats_cache) THEN "test_time" ELSE "get"]
    /\ UNCHANGED <<corpus, now, stats_cache, stats_cache_time, call, lastScan, app, auth>>

\* l.278, right operand: self._stats_cache_time is read and compared
TestTime(t) ==
    /\ threads[t].pc = "test_time"
    /\ threads' = [threads EXCEPT ![t].pc =
                      IF (threads[t].now - stats_cache_time) < STATS_CACHE_TTL
                      THEN "return_cached" ELSE "get"]
    /\ UNCHANGED <<corpus, now, stats_cache, stats_cache_time, call, lastScan, app, auth>>

\* l.279: `return self._stats_cache` reads the slot once more
ReturnCached(t) ==
    /\ threads[t].pc = "return_cached"
    /\ threads' = [threads EXCEPT ![t] = Idle]
    /\ call' = [op |-> "get_database_stats", thread |-> t, at |-> threads[t].now,
                result |-> stats_cache, scanned |-> FALSE,
                computed |-> lastScan]
    /\ UNCHANGED <<corpus, now, stats_cache, stats_cache_time, lastScan, app, auth>>

\* l.281-333: the store is read and the aggregate computed, in locals
ScanCorpus(t) ==
    /\ threads[t].pc = "get"
    /\ threads' = [threads EXCEPT ![t] =
                      [pc |-> "write_cache", now |-> threads[t].now,
                       stats |-> ScanStats(StoreGetAll(corpus)),
                       scan_at |-> now]]
    /\ UNCHANGED <<corpus, now, stats_cache, stats_cache_time, call, lastScan, app, auth>>

\* l.292 and l.335: `self._stats_cache = stats`
WriteCache(t) ==
    /\ threads[t].pc = "write_cache"
    /\ stats_cache' = threads[t].stats
    /\ lastScan' = [thread |-> t, at |-> threads[t].now,
                    scan_at |-> threads[t].scan_at, result |-> threads[t].stats]
    /\ threads' = [threads EXCEPT ![t].pc = "write_time"]
    /\ UNCHANGED <<corpus, now, stats_cache_time, call, app, auth>>

\* l.293-294 and l.336-337: `self._stats_cache_time = now`, `return stats`
WriteTime(t) ==
    /\ threads[t].pc = "write_time"
    /\ stats_cache_time' = threads[t].now
    /\ threads' = [threads EXCEPT ![t] = Idle]
    /\ call' = [op |-> "get_database_stats", thread |-> t, at |-> threads[t].now,
                result |-> threads[t].stats, scanned |-> TRUE,
                computed |-> [thread |-> t, at |-> threads[t].now,
                              scan_at |-> threads[t].scan_at,
                              result |-> threads[t].stats]]
    /\ UNCHANGED <<corpus, now, stats_cache, lastScan, app, auth>>

\* the clock advances while calls are in progress
ClockTick ==
    \E d \in Delays :
        /\ now + d <= MaxNow
        /\ now' = now + d
        /\ UNCHANGED <<corpus, stats_cache, stats_cache_time, call, lastScan,
                       app, auth, threads>>

InitThreads ==
    /\ corpus \in {c \in Corpora : Range(c) \subseteq IngestPool /\ Len(c) = 1}
    /\ now = 0
    /\ stats_cache = None
    /\ stats_cache_time = 0
    /\ call = NoCall
    /\ lastScan = None
    /\ auth = EmptyDatabase
    /\ app = NoApp
    /\ threads = [t \in ThreadIds |-> Idle]

NextThreads ==
    \/ \E t \in ThreadIds :
          \/ EnterStats(t)
          \/ TestCache(t)
          \/ TestTime(t)
          \/ ReturnCached(t)
          \/ ScanCorpus(t)
          \/ WriteCache(t)
          \/ WriteTime(t)
    \/ ClockTick

SpecThreads == InitThreads /\ [][NextThreads]_vars

\* ── Claims on concurrent calls ─────────────────────────────────────────
\* a thread is about to read the cache slot
Reading(t) == threads[t].pc \in {"test_cache", "test_time", "return_cached"}

\* no call is in progress
Quiescent == \A t \in ThreadIds : threads[t].pc = "idle"

\* whenever a call looks at a filled slot, the timestamp in it is the
\* time of the call that computed the value in it
C25_SlotConsistent ==
    \A t \in ThreadIds :
        Reading(t) /\ stats_cache # None => stats_cache_time = lastScan.at

\* no call returns from the cache a value whose scan started a TTL or
\* more before the call
C25_FreshReturn ==
    call.op = "get_database_stats" /\ ~call.scanned /\ call.computed # None
        => call.at - call.computed.scan_at < STATS_CACHE_TTL

\* once every call has finished, value and timestamp are those of one call
C25_FinalSlot ==
    Quiescent /\ stats_cache # None => stats_cache_time = lastScan.at

\* C25: in every interleaving of concurrent get_database_stats calls the
\* slot is never seen half written (the timestamp is always that of the
\* call that computed the cached value), no call returns as fresh a value
\* whose scan started 300 seconds or more before it, and after all calls
\* finish the slot holds the value and timestamp of one call.
C25_CacheWrittenTogether ==
    /\ C25_SlotConsistent
    /\ C25_FreshReturn
    /\ C25_FinalSlot

====
